---- MODULE Spec2Model ----
(***************************************************************************)
(* ErrantDNS: the tiered storage/cache stack.                              *)
(*   L1  MemoryCache        (internal/cache/memory.go)                     *)
(*   L2  Redis              (internal/redis helpers)                       *)
(*   L3  PostgresStorage    (internal/storage/postgres.go)                 *)
(* and the two facades over them, CachedStorage (L1 -> L3) and             *)
(* RedisCacheStorage (L1 -> L2 -> L3).  Every Redis command, every SQL     *)
(* statement and every MemoryCache method is one atomic step; a facade     *)
(* method is the sequence of the steps it makes.                           *)
(***************************************************************************)
EXTENDS Integers, Sequences, FiniteSets, TLC

\* ------------------------------------------------------------------ bounds
MaxTime == 2
MaxId == 2
NumReaders == 1
MaxEntries == 1
MaxLookups == 2
MaxMutations == 2

\* ---------------------------------------------------------- value domains
Names == {"www.test.internal"}
UsedTypes == {"A", "SOA"}
Targets == {"10.0.0.1"}
TTLs == {1, 10}
Priorities == {10, 20}

Readers == 1..NumReaders
Ids == 1..MaxId
\* the keys the storage facade is asked for directly
LookupKeys == Names \X UsedTypes

\* the names resolveSOA walks
ServeNames == {"www.test.internal", "test.internal", "internal"}

\* the questions the DNS server is asked: the name as it is on the wire
\* (fully qualified, in whatever case the client used) and the query type
Questions ==
  {<<"www.test.internal.", "A">>, <<"WWW.Test.internal.", "SOA">>,
   <<"test.internal.", "SOA">>, <<"test.internal.", "MX">>}

\* every cache key in use
Keys == LookupKeys \cup (ServeNames \X {"SOA"})

NoRec == [id |-> 0]
NoEntry == [present |-> FALSE]
NoExpiry == -1
NoKey == <<"", "">>
NullPriority == -1

\* models.DNSRecord, the columns PostgresStorage reads and writes
Record(i, n, t, tg, ttl, p) ==
  [id |-> i, name |-> n, type |-> t, target |-> tg, ttl |-> ttl, priority |-> p]

\* models.LookupQuery.CacheKey: the fingerprint of (name, type)
CacheKey(n, t) == <<n, t>>

KeyOf(rec) == CacheKey(rec.name, rec.type)

\* ----------------------------------------------------------------- names
\* strings.ToLower
ToLower(n) ==
  CASE n = "WWW.Test.internal." -> "www.test.internal."
    [] n = "WWW.Test.internal" -> "www.test.internal"
    [] OTHER -> n

\* strings.TrimSuffix(n, ".")
TrimDot(n) ==
  CASE n = "www.test.internal." -> "www.test.internal"
    [] n = "WWW.Test.internal." -> "WWW.Test.internal"
    [] n = "test.internal." -> "test.internal"
    [] n = "internal." -> "internal"
    [] OTHER -> n

\* models.NormalizeDomainName
NormalizeDomainName(n) == ToLower(TrimDot(n))

\* models.NewLookupQuery
NewLookupQuery(n, t) == [name |-> NormalizeDomainName(n), type |-> t]

\* the same on a name taken character by character
MaxNameLen == 4
MaxNormalize == 2
Chars == {"a", "A", "."}
NameChars == UNION {[1..n -> Chars] : n \in 0..MaxNameLen}
LowerOf(ch) == IF ch = "A" THEN "a" ELSE ch
ToLowerChars(s) == [i \in 1..Len(s) |-> LowerOf(s[i])]
TrimSuffix(s, suffix) ==
  IF Len(s) >= Len(suffix) /\ SubSeq(s, Len(s) - Len(suffix) + 1, Len(s)) = suffix
  THEN SubSeq(s, 1, Len(s) - Len(suffix))
  ELSE s
NormalizeChars(s) == ToLowerChars(TrimSuffix(s, <<".">>))
NameGiven(s) == [input |-> s, name |-> s, times |-> 0, asked |-> FALSE, query |-> <<>>]

NoEngine == [query |-> <<>>, patterns |-> {}, winners |-> <<>>]

\* main waits for a signal, Server.Start for the context; both dns.Servers serve
Nets == {"udp", "tcp"}
Serving ==
  [pc |-> [main |-> "wait", start |-> "wait"], ctxDone |-> FALSE,
   started |-> [n \in Nets |-> TRUE], inflight |-> [n \in Nets |-> 0],
   closed |-> <<>>, served |-> 0]

\* the goroutines dns.Server runs handleDNSRequest on, and what they share
NumHandlers == 2
MaxHandled == 2
MaxQuestions == 2
Handlers == 1..NumHandlers
Counters == {"QueriesReceived", "QueriesAnswered", "QueriesNXDomain", "QueriesError", "TypeA"}
NoReply == [rcode |-> "NOERROR", answer |-> 0]
HandlerIdle ==
  [pc |-> "idle", ctr |-> "", reg |-> 0, next |-> "", qs |-> <<>>, msg |-> NoReply,
   failed |-> FALSE, writeOk |-> TRUE, sent |-> FALSE]
NoHandlers ==
  [stats |-> [c \in Counters |-> 0], h |-> [p \in Handlers |-> HandlerIdle],
   recv |-> 0, done |-> 0, overlapped |-> FALSE]

\* a DNSRecord with its subdomain labels and a RecordSet, nothing called yet
NoRecordSet == [type |-> "A", records |-> <<>>]
ModelsGiven(labels, rs) ==
  [labels |-> labels, detected |-> FALSE, err |-> FALSE, isWildcard |-> FALSE,
   wildcardMask |-> 0, rs |-> rs, asked |-> FALSE, highest |-> 0]
NoModels == ModelsGiven(<<>>, NoRecordSet)

\* dns.Fqdn: the name with its trailing dot
Fqdn(n) ==
  CASE n = "www.test.internal" -> "www.test.internal."
    [] n = "test.internal" -> "test.internal."
    [] n = "internal" -> "internal."
    [] OTHER -> n

\* strings.Split(domain, ".")
SplitDots(n) ==
  CASE n = "www.test.internal" -> <<"www", "test", "internal">>
    [] n = "*.test.internal" -> <<"*", "test", "internal">>
    [] n = "test.internal" -> <<"test", "internal">>
    [] OTHER -> <<n>>

\* strings.Join(parts, ".")
JoinDots(parts) ==
  CASE parts = <<"www", "test", "internal">> -> "www.test.internal"
    [] parts = <<"test", "internal">> -> "test.internal"
    [] OTHER -> parts[1]

\* Resolver.generateDomainHierarchy: the name and each of its parents, from
\* specific to general
generateDomainHierarchyNameOnly(domain) == <<ToLower(TrimDot(domain))>>
generateDomainHierarchyGeneralFirst(domain) ==
  LET parts == SplitDots(ToLower(TrimDot(domain)))
  IN [i \in 1..Len(parts) |-> JoinDots(SubSeq(parts, Len(parts) + 1 - i, Len(parts)))]
generateDomainHierarchy(domain) ==
  LET parts == SplitDots(ToLower(TrimDot(domain)))
  IN [i \in 1..Len(parts) |-> JoinDots(SubSeq(parts, i, Len(parts)))]

\* ------------------------------------------------------------- sequences
RECURSIVE RemoveFirst(_, _)
RemoveFirst(s, x) ==
  IF s = <<>> THEN <<>>
  ELSE IF Head(s) = x THEN Tail(s)
  ELSE <<Head(s)>> \o RemoveFirst(Tail(s), x)

RECURSIVE SortedIds(_)
SortedIds(S) ==
  IF S = {} THEN <<>>
  ELSE LET m == CHOOSE x \in S : \A y \in S : x <= y
       IN <<m>> \o SortedIds(S \ {m})

\* ------------------------------------------------- L3: PostgresStorage
Rows(st, k) == {i \in DOMAIN st : st[i] # NoRec /\ KeyOf(st[i]) = k}

\* SELECT MIN(priority) ... : NULL when no row matches
MaxPriorityQuery(st, k) ==
  IF Rows(st, k) = {} THEN NullPriority
  ELSE CHOOSE p \in {st[i].priority : i \in Rows(st, k)} :
         \A i \in Rows(st, k) : p >= st[i].priority
MinPriorityQuery(st, k) ==
  IF Rows(st, k) = {} THEN NullPriority
  ELSE CHOOSE p \in {st[i].priority : i \in Rows(st, k)} :
         \A i \in Rows(st, k) : p <= st[i].priority

\* row.Scan(&minPriority) into sql.NullInt32: a NULL scans without error and
\* leaves Int32 = 0, which is what the second statement is given
ScannedInt32(mp) == IF mp = NullPriority THEN 0 ELSE mp

\* SELECT ... WHERE ... AND priority = $3 ORDER BY id ASC
RecordsQueryAnyPriority(st, k, p) ==
  LET ids == SortedIds(Rows(st, k))
  IN [j \in 1..Len(ids) |-> st[ids[j]]]
RecordsQuery(st, k, p) ==
  LET ids == SortedIds({i \in Rows(st, k) : st[i].priority = p})
  IN [j \in 1..Len(ids) |-> st[ids[j]]]

\* the minimum-priority group of one store state
MinGroup(st, k) == RecordsQuery(st, k, ScannedInt32(MinPriorityQuery(st, k)))

\* ------------------------------------------------------ L1: MemoryCache
isExpiredSwapped(e, t) == t < e.expiresAt
isExpired(e, t) == t > e.expiresAt

CacheSize(c) == Cardinality({k \in Keys : c.data[k] # NoEntry})

deleteFromMapUnlocked(c, k) == [c EXCEPT !.data[k] = NoEntry]
deleteUnlocked(c, k) ==
  [data |-> [c.data EXCEPT ![k] = NoEntry], order |-> RemoveFirst(c.order, k)]

leaveInPlaceUnlocked(c, k) == c
moveToFrontUnlocked(c, k) ==
  [c EXCEPT !.order = <<k>> \o RemoveFirst(c.order, k)]

evictLRUUnlocked(c) ==
  IF Len(c.order) = 0 THEN c ELSE deleteUnlocked(c, c.order[Len(c.order)])

RECURSIVE EvictWhileFull(_)
EvictWhileFull(c) ==
  IF CacheSize(c) >= MaxEntries /\ Len(c.order) > 0
  THEN EvictWhileFull(evictLRUUnlocked(c))
  ELSE c

NewEntry(recs, t, ttl) == [present |-> TRUE, records |-> recs, expiresAt |-> t + ttl]

MemSet(c, k, recs, ttl, t) ==
  IF c.data[k] # NoEntry
  THEN moveToFrontUnlocked([c EXCEPT !.data[k] = NewEntry(recs, t, ttl)], k)
  ELSE LET e == EvictWhileFull(c)
       IN [data |-> [e.data EXCEPT ![k] = NewEntry(recs, t, ttl)],
           order |-> <<k>> \o e.order]

MemGetFound(c, k, t) == c.data[k] # NoEntry /\ ~isExpired(c.data[k], t)

MemGetRecords(c, k, t) == IF MemGetFound(c, k, t) THEN c.data[k].records ELSE <<>>

MemGetCache(c, k, t) ==
  IF c.data[k] = NoEntry THEN c
  ELSE IF isExpired(c.data[k], t) THEN deleteUnlocked(c, k)
  ELSE moveToFrontUnlocked(c, k)

MemDeleteEvery(c, k) == [data |-> [j \in DOMAIN c.data |-> NoEntry], order |-> <<>>]
MemDelete(c, k) == deleteUnlocked(c, k)

RECURSIVE DeleteAll(_, _)
DeleteAll(c, ks) ==
  IF ks = {} THEN c
  ELSE LET k == CHOOSE x \in ks : TRUE
       IN DeleteAll(deleteUnlocked(c, k), ks \ {k})

MemCleanupExpired(c, t) ==
  DeleteAll(c, {k \in Keys : c.data[k] # NoEntry /\ t > c.data[k].expiresAt})

EmptyCache == [data |-> [k \in Keys |-> NoEntry], order |-> <<>>]

\* ------------------------------------------------------------ L2: Redis
\* json.Marshal of []*DNSRecord: one object per record, in order
MarshalJSON(recs) ==
  [j \in 1..Len(recs) |->
     <<recs[j].id, recs[j].name, recs[j].type, recs[j].target,
       recs[j].ttl, recs[j].priority>>]

UnmarshalJSON(data) ==
  [j \in 1..Len(data) |->
     Record(data[j][1], data[j][2], data[j][3], data[j][4], data[j][5], data[j][6])]

\* a key is live while it has no expiry or its expiry lies ahead
RedisLive(r, k, t) ==
  r[k] # NoEntry /\ (r[k].expireAt = NoExpiry \/ t < r[k].expireAt)

\* SET key data (expiration 0: any earlier expiry of the key is discarded)
RedisSet(r, k, data) ==
  [r EXCEPT ![k] = [present |-> TRUE, data |-> data, expireAt |-> NoExpiry]]

\* EXPIRE key seconds: no effect on a missing key; a non-positive timeout
\* deletes the key
RedisExpire(r, k, secs, t) ==
  IF ~RedisLive(r, k, t) THEN [r EXCEPT ![k] = NoEntry]
  ELSE IF secs <= 0 THEN [r EXCEPT ![k] = NoEntry]
  ELSE [r EXCEPT ![k].expireAt = t + secs]

RedisDel(r, k) == [r EXCEPT ![k] = NoEntry]

\* ---------------------------------------------------- the facades' helpers
\* RedisCacheStorage.invalidateDomain / CachedStorage.invalidateDomain
RedisCommonTypes == <<"A", "AAAA", "CNAME", "TXT", "MX", "NS", "SOA", "PTR", "SRV", "CAA">>
CachedCommonTypes == <<"A", "AAAA", "CNAME", "TXT", "MX", "NS">>
commonTypes(redis) == IF redis THEN RedisCommonTypes ELSE CachedCommonTypes

\* models.RecordType: the enumerated record types
RecordTypes == {"A", "AAAA", "CNAME", "TXT", "MX", "NS", "SOA", "PTR", "SRV", "CAA", "TLSA"}

\* time.Duration(records[0].TTL/10) * time.Second, in seconds
RedisL1TTLFull(ttl) == ttl
RedisL1TTL(ttl) == ttl \div 10
\* time.Duration(records[0].TTL/2) * time.Second, in seconds
RedisL2TTL(ttl) == ttl \div 2
\* time.Duration(records[0].TTL) * time.Second, in seconds
CachedL1TTL(ttl) == ttl

L1TTL(redis, ttl) == IF redis THEN RedisL1TTL(ttl) ELSE CachedL1TTL(ttl)

\* md5(name || type)[:8] as an integer: a fixed value per query
QueryHash(k) == IF k[2] = "A" THEN 3 ELSE 6

\* CachedStorage.roundRobinIndex (0-based)
roundRobinIndexPerSecond(k, count, t) ==
  IF count <= 1 THEN 0 ELSE (QueryHash(k) + t) % count
roundRobinIndex(k, count, t) ==
  IF count <= 1 THEN 0 ELSE (QueryHash(k) + (t \div 5)) % count

\* selectFromArray of either facade: RedisCacheStorage answers records[0]
selectFromArray(redis, recs, k, t) ==
  IF Len(recs) = 0 THEN NoRec
  ELSE IF Len(recs) = 1 THEN recs[1]
  ELSE IF redis THEN recs[1]
  ELSE recs[roundRobinIndex(k, Len(recs), t) + 1]

\* `found && len(records) > 0`
CacheHit(found, recs) == found /\ Len(recs) > 0

\* after the record group came back from L3: `if len(records) == 0 { return nil, nil }`
GroupIsEmpty(recs) == Len(recs) = 0

\* ------------------------------------------- selection (tie-breaking)
\* fnv64a(name || type || now/300): a fixed value per query and 5-minute window
generateSeed(k, t) == QueryHash(k) * 7 + (t \div 300)

\* rand.New(rand.NewSource(seed)).Intn(n): the first draw of a generator is a
\* function of its seed
RandIntn(seed, n) == (seed * 5 + 1) % n

\* PostgresStorage.roundRobinIndex (0-based): the window is 30 seconds
postgresRoundRobinIndex(k, count, t) ==
  IF count <= 1 THEN 0 ELSE (QueryHash(k) + (t \div 30)) % count

\* PostgresStorage.selectFromGroup
selectFromGroup(tb, recs, k, t) ==
  IF Len(recs) = 0 THEN NoRec
  ELSE IF Len(recs) = 1 THEN recs[1]
  ELSE IF tb = "random" THEN recs[RandIntn(generateSeed(k, t), Len(recs)) + 1]
  ELSE recs[postgresRoundRobinIndex(k, Len(recs), t) + 1]

\* CachedStorage.selectFromArray
cachedSelectFromArray(tb, recs, k, t) ==
  IF Len(recs) = 0 THEN NoRec
  ELSE IF Len(recs) = 1 THEN recs[1]
  ELSE IF tb = "random" THEN recs[RandIntn(generateSeed(k, t), Len(recs)) + 1]
  ELSE recs[roundRobinIndex(k, Len(recs), t) + 1]

\* RedisCacheStorage.selectFromArray
redisSelectFromArray(recs) == IF Len(recs) = 0 THEN NoRec ELSE recs[1]

\* CreateRecord / UpdateRecord of either facade: `if err != nil { return err }`
\* before invalidateRecord
InvalidateAfterStoreMut(ok) == TRUE
InvalidateAfterStore(ok) == ok

\* ------------------------------------------------------------------ state
VARIABLES
  now,          \* the clock, in seconds
  redisEnabled, \* cfg.Redis.Enabled: RedisCacheStorage (TRUE) or CachedStorage (FALSE)
  store,        \* dns_records: id -> row
  nextId,       \* the id sequence of dns_records
  l1,           \* MemoryCache: data and accessOrder
  l2,           \* Redis keys
  rpc,          \* each lookup's position in LookupRecord / LookupRecordGroup
  rkey,         \* cacheKey of the lookup
  rmode,        \* "cached" (a read-through method) or "direct" (straight to L3)
  rrecs,        \* the local `records`
  rmin,         \* the local `minPriority.Int32`
  rres,         \* what the last lookup returned
  rh,           \* history of the lookup in progress
  wpc,          \* the mutation's position in its facade method
  wkey,         \* cacheKey being invalidated
  wname,        \* name given to DeleteRecords
  widx,         \* index into commonTypes in invalidateDomain
  wlast,        \* history: the last mutation that returned (of DeleteRecords(name, ""):
                \* whether no lookup was in progress when it began, and nlook then)
  wstored,      \* history: the store statement of the mutation in progress succeeded
  updNext,      \* history: key of an update that returned (no Redis command of it
                \* failed), no lookup of the key started and no row changed since
  deletedById,  \* history: ids whose DeleteRecord returned nil
  prevRead,     \* history: the lookup that completed immediately before, if it filled
                \* L1 from L3 and no mutation was in progress while it ran
  nlook,        \* lookups started
  nmut,         \* mutations started
  srv,          \* the DNS server and its resolver:
                \*   cacheEnabled  cfg.Cache.Enabled: a facade, or PostgresStorage alone
                \*   tieBreaker    cfg.Priority.TieBreaker: "round_robin" or "random"
                \*   pc            position in handleDNSRequest
                \*   question      the question of the request being handled
                \*   walk          resolveSOA: index into the domain hierarchy
                \*   msg           the reply: Rcode and Answer
                \*   res           history: what the resolver returned
                \*   last          history: the storage call the resolver made last
                \*   prev          history: the last storage call of the request before
                \*   l2fault       history: a Redis command of this request failed
                \*   l3fault       history: a store statement of this request failed
                \*   nfault        storage calls a dependency failed in
                \*   nreq          requests received
  mc,           \* callers of one MemoryCache (the cache itself is l1):
                \*   maxEntries    c.maxEntries
                \*   mu            c.mu: the writer holding it, the readers holding it
                \*   stats         c.stats: Hits, Misses, Evictions
                \*   pc, call, loc each caller's position, method and locals
                \*   ret           what each caller's last method returned
                \*   seq, want     history: the cache and the results of the same
                \*                 methods run one at a time, in the order they began
                \*   tick, access  history: a count of methods begun and, per key,
                \*                 the count at its latest set or get that hit
                \*   hit           history: the key a get hit, while that hit is the
                \*                 latest access to any entry
                \*   ev            history: the latest eviction
                \*   ncalls        methods begun
  nm,           \* a record's name, character by character:
                \*   input         the name as given
                \*   name          r.Name
                \*   times         calls of r.Normalize()
                \*   asked, query  NewLookupQuery(r.Name, ...) was made; its Name
  we,           \* the wildcard engine:
                \*   query         the labels of the query, left to right
                \*   patterns      the stored patterns, each its labels
                \*   winners       the pattern each call so far returned
  hd,           \* the handlers of the DNS server and its counters:
                \*   stats         s.stats, one number per counter
                \*   h             per handler goroutine: its position, the counter and
                \*                 the value it has loaded, the questions left, msg
                \*   recv, done    requests received and requests handled
                \*   overlapped    two handlers have run at the same time
  md,           \* values of package models:
                \*   labels        r.SubdomainLabels of a DNSRecord
                \*   detected, err, isWildcard, wildcardMask
                \*                 detectAndSetWildcards was called; what it set
                \*   rs            a RecordSet: its Type and its Records' priorities
                \*   asked, highest  HighestPriority was called; the index it returned
  sd            \* the process and its shutdown:
                \*   pc            position of main and of the goroutine in Server.Start
                \*   ctxDone       cancel() was called
                \*   started       per dns.Server (udp, tcp): it accepts requests
                \*   inflight      per dns.Server: handlers running
                \*   closed        the resources closed, in the order of closing
                \*   served        requests accepted

vars ==
  <<now, redisEnabled, store, nextId, l1, l2, rpc, rkey, rmode, rrecs, rmin, rres, rh,
    wpc, wkey, wname, widx, wlast, wstored, updNext, deletedById, prevRead, nlook, nmut,
    srv, mc, nm, we, sd, hd, md>>

rvars == <<rpc, rkey, rmode, rrecs, rmin, rres, rh, nlook>>
wvars == <<wpc, wkey, wname, widx, wlast, wstored, nmut>>
svars == <<srv, mc, nm, we, sd, hd, md>>

NoTTL == NoExpiry
NoResult == [kind |-> "none"]
NoHist ==
  [fresh |-> FALSE, delAtStart |-> {}, snaps |-> {}, l3calls |-> 0, l3err |-> FALSE,
   wrote |-> FALSE, warm |-> FALSE, prevl3 |-> 0, gap |-> 0, quiet0 |-> FALSE, mut0 |-> 0,
   l1ttl |-> NoTTL, l2ttl |-> NoTTL, recttl |-> NoTTL, t0 |-> NoTTL,
   age |-> NoTTL, prevttl |-> NoTTL]
NoLast == [kind |-> "none", key |-> NoKey, name |-> "", l2ok |-> TRUE]
NoPrev == [key |-> NoKey]
NoQuestion == [name |-> "", qtype |-> ""]
NoMsg == [rcode |-> "NOERROR", answer |-> <<>>, perr |-> FALSE]
NoCall == [kind |-> "none"]

\* the server at rest, no request received yet
ServerIdle(cache, tb) ==
  [cacheEnabled |-> cache, tieBreaker |-> tb, pc |-> "idle", question |-> NoQuestion,
   walk |-> 0, msg |-> NoMsg, res |-> NoCall, last |-> NoCall, prev |-> NoCall,
   l2fault |-> FALSE, l3fault |-> FALSE, nfault |-> 0, nreq |-> 0]

\* callers of one MemoryCache: goroutines of the facades and the cleanup loop
NumCallers == 2
MaxCalls == 4
MaxCapacity == 2
Callers == 1..NumCallers
CallKeys == {k \in Keys : k[1] # "internal"}
CallTTL == CHOOSE ttl \in TTLs : \A other \in TTLs : ttl <= other
NoLocals == [exists |-> FALSE, expired |-> FALSE, records |-> <<>>,
             now |-> 0, keys |-> {}, hits |-> 0, misses |-> 0, evictions |-> 0]
NoReturn == [found |-> FALSE, records |-> <<>>, hits |-> 0, misses |-> 0,
             evictions |-> 0, entries |-> 0]
NoMethod == [kind |-> "none", key |-> NoKey, ttl |-> 0, records |-> <<>>]
NoStats == [hits |-> 0, misses |-> 0, evictions |-> 0]
NoEviction == [key |-> NoKey, oldest |-> {}, hit |-> NoKey, full |-> 0]
Unlocked == [w |-> 0, r |-> {}]
NewMemoryCache(max) ==
  [maxEntries |-> max, mu |-> Unlocked, stats |-> NoStats,
   pc |-> [p \in Callers |-> "idle"], call |-> [p \in Callers |-> NoMethod],
   loc |-> [p \in Callers |-> NoLocals], ret |-> [p \in Callers |-> NoReturn],
   seq |-> [c |-> EmptyCache, stats |-> NoStats],
   want |-> [p \in Callers |-> NoReturn],
   tick |-> 0, access |-> [k \in Keys |-> 0], hit |-> NoKey, ev |-> NoEviction,
   ncalls |-> 0]

Init ==
  /\ now = 0
  /\ redisEnabled \in BOOLEAN
  /\ store = [i \in Ids |-> NoRec]
  /\ nextId = 1
  /\ l1 = EmptyCache
  /\ l2 = [k \in Keys |-> NoEntry]
  /\ rpc = [r \in Readers |-> "idle"]
  /\ rkey = [r \in Readers |-> NoKey]
  /\ rmode = [r \in Readers |-> "cached"]
  /\ rrecs = [r \in Readers |-> <<>>]
  /\ rmin = [r \in Readers |-> 0]
  /\ rres = [r \in Readers |-> NoResult]
  /\ rh = [r \in Readers |-> NoHist]
  /\ wpc = "idle"
  /\ wkey = NoKey
  /\ wname = ""
  /\ widx = 0
  /\ wlast = NoLast
  /\ wstored = FALSE
  /\ updNext = NoKey
  /\ deletedById = {}
  /\ prevRead = NoPrev
  /\ nlook = 0
  /\ nmut = 0
  /\ srv = ServerIdle(TRUE, "round_robin")
  /\ mc = NewMemoryCache(MaxEntries)
  /\ nm = NameGiven(<<>>)
  /\ we = NoEngine
  /\ sd = Serving
  /\ hd = NoHandlers
  /\ md = NoModels

\* ------------------------------------------------------------- lookups
\* what a lookup hands back, with the history the properties read
Result(r, kind, recs, src, h) ==
  [kind |-> kind, key |-> rkey'[r], mode |-> rmode'[r], recs |-> recs,
   sel |-> selectFromArray(redisEnabled, recs, rkey'[r], now), src |-> src,
   fresh |-> h.fresh, delAtStart |-> h.delAtStart,
   current |-> (recs = MinGroup(store, rkey'[r])),
   snapok |-> (src # "L3" \/ kind = "err" \/ h.l3err \/ recs \in h.snaps),
   l3calls |-> h.l3calls, l3err |-> h.l3err, wrote |-> h.wrote,
   warm |-> h.warm, prevl3 |-> h.prevl3, gap |-> h.gap, l1ttl |-> h.l1ttl, l2ttl |-> h.l2ttl, recttl |-> h.recttl,
   t0 |-> h.t0, age |-> h.age, prevttl |-> h.prevttl]

Return(r, kind, recs, src, h) ==
  /\ rpc' = [rpc EXCEPT ![r] = "idle"]
  /\ rres' = [rres EXCEPT ![r] = Result(r, kind, recs, src, h)]
  /\ rrecs' = [rrecs EXCEPT ![r] = <<>>]
  /\ rmin' = [rmin EXCEPT ![r] = 0]
  /\ rh' = [rh EXCEPT ![r] = NoHist]
  /\ prevRead' = IF kind = "ok" /\ src = "L3" /\ h.l1ttl # NoTTL
                    /\ h.quiet0 /\ h.mut0 = nmut
                 THEN [key |-> rkey'[r], t0 |-> h.t0, l1ttl |-> h.l1ttl,
                       l3calls |-> h.l3calls, recttl |-> h.recttl]
                 ELSE NoPrev

\* history: the lookup before this one, with nothing in between but the clock
\* and the cleanup, filled L1 for the same key less than its L1 TTL ago
Warm(k) ==
  /\ prevRead # NoPrev
  /\ prevRead.key = k
  /\ now - prevRead.t0 < prevRead.l1ttl

\* history: the lookup before this one, with nothing in between but the clock
\* and the cleanup, read the group of the same key from L3
Follows(k) == prevRead # NoPrev /\ prevRead.key = k

StartHist(k) ==
  [NoHist EXCEPT !.fresh = (updNext = k), !.delAtStart = deletedById,
                 !.warm = Warm(k), !.quiet0 = (wpc = "idle"), !.mut0 = nmut,
                 !.prevl3 = IF Warm(k) THEN prevRead.l3calls ELSE 0,
                 !.gap = IF Warm(k) THEN now - prevRead.t0 ELSE 0,
                 !.age = IF Follows(k) THEN now - prevRead.t0 ELSE NoTTL,
                 !.prevttl = IF Follows(k) THEN prevRead.recttl ELSE NoTTL]

\* LookupRecord and LookupRecordGroup of RedisCacheStorage and LookupRecord of
\* CachedStorage begin with memoryCache.Get(cacheKey).  The two methods of
\* RedisCacheStorage differ in the value returned only (the group, or
\* selectFromArray of it): a result carries both, recs and sel
LookupL1Get(r, k) ==
  /\ rpc[r] = "idle"
  /\ nlook < MaxLookups
  /\ nlook' = nlook + 1
  /\ rkey' = [rkey EXCEPT ![r] = k]
  /\ rmode' = [rmode EXCEPT ![r] = "cached"]
  /\ l1' = MemGetCache(l1, k, now)
  /\ updNext' = IF updNext = k THEN NoKey ELSE updNext
  /\ IF CacheHit(MemGetFound(l1, k, now), MemGetRecords(l1, k, now))
     THEN Return(r, "ok", MemGetRecords(l1, k, now), "L1", StartHist(k))
     ELSE /\ rpc' = [rpc EXCEPT ![r] = IF redisEnabled THEN "l2get" ELSE "l3min"]
          /\ rres' = [rres EXCEPT ![r] = NoResult]
          /\ rh' = [rh EXCEPT ![r] = StartHist(k)]
          /\ prevRead' = NoPrev
          /\ UNCHANGED <<rrecs, rmin>>
  /\ UNCHANGED <<now, redisEnabled, svars, store, nextId, l2, wvars, deletedById>>

\* CachedStorage.LookupRecordGroup: storage.LookupRecordGroup, no cache
LookupDirect(r, k) ==
  /\ rpc[r] = "idle"
  /\ nlook < MaxLookups
  /\ nlook' = nlook + 1
  /\ ~redisEnabled
  /\ rkey' = [rkey EXCEPT ![r] = k]
  /\ rmode' = [rmode EXCEPT ![r] = "direct"]
  /\ rpc' = [rpc EXCEPT ![r] = "l3min"]
  /\ rres' = [rres EXCEPT ![r] = NoResult]
  /\ rh' = [rh EXCEPT ![r] = [StartHist(k) EXCEPT !.warm = FALSE, !.prevl3 = 0, !.gap = 0]]
  /\ updNext' = IF updNext = k THEN NoKey ELSE updNext
  /\ prevRead' = NoPrev
  /\ UNCHANGED <<now, redisEnabled, svars, store, nextId, l1, l2, rrecs, rmin, wvars, deletedById>>

\* redis.GetJSONFrom(client, cacheKey, &records): GET, then json.Unmarshal
LookupL2Get(r, ok) ==
  /\ rpc[r] = "l2get"
  /\ LET live == ok /\ RedisLive(l2, rkey[r], now)
         recs == IF live THEN UnmarshalJSON(l2[rkey[r]].data) ELSE <<>>
     IN IF live /\ Len(recs) > 0
        THEN /\ rrecs' = [rrecs EXCEPT ![r] = recs]
             /\ rpc' = [rpc EXCEPT ![r] = "l2hit"]
        ELSE /\ rpc' = [rpc EXCEPT ![r] = "l3min"]
             /\ UNCHANGED rrecs
  /\ prevRead' = NoPrev
  /\ UNCHANGED <<now, redisEnabled, svars, store, nextId, l1, l2, rkey, rmode, rmin, rres, rh,
                 wvars, updNext, deletedById, nlook>>

\* after a Redis hit: memoryCache.Set(cacheKey, records, TTL/10), return
LookupL2HitSet(r) ==
  /\ rpc[r] = "l2hit"
  /\ LET ttl == RedisL1TTL(rrecs[r][1].ttl)
     IN /\ l1' = MemSet(l1, rkey[r], rrecs[r], ttl, now)
        /\ UNCHANGED <<rkey, rmode>>
        /\ Return(r, "ok", rrecs[r], "L2",
                  [rh[r] EXCEPT !.l1ttl = ttl, !.recttl = rrecs[r][1].ttl, !.t0 = now,
                               !.wrote = TRUE])
  /\ UNCHANGED <<now, redisEnabled, svars, store, nextId, l2, wvars, updNext, deletedById, nlook>>

\* PostgresStorage.LookupRecordGroup, first statement: SELECT MIN(priority).
\* A failed Scan leaves minPriority.Valid false, and the method returns nil, nil
LookupL3Min(r, ok) ==
  /\ rpc[r] = "l3min"
  /\ UNCHANGED <<rkey, rmode>>
  /\ IF ok
     THEN /\ rmin' = [rmin EXCEPT ![r] = ScannedInt32(MinPriorityQuery(store, rkey[r]))]
          /\ rpc' = [rpc EXCEPT ![r] = "l3rows"]
          /\ rh' = [rh EXCEPT ![r].snaps = {MinGroup(store, rkey[r])}, ![r].l3calls = 1]
          /\ prevRead' = NoPrev
          /\ UNCHANGED <<rrecs, rres>>
     ELSE Return(r, "empty", <<>>, "L3",
                 [rh[r] EXCEPT !.l3calls = 1, !.l3err = TRUE])
  /\ UNCHANGED <<now, redisEnabled, svars, store, nextId, l1, l2, wvars, updNext, deletedById, nlook>>

\* LookupL3Rows as it would be with the empty group cached in L1
LookupL3RowsNegCache(r, ok) ==
  /\ rpc[r] = "l3rows"
  /\ UNCHANGED <<rkey, rmode>>
  /\ LET recs == RecordsQuery(store, rkey[r], rmin[r])
     IN IF ~ok THEN Return(r, "err", <<>>, "L3", rh[r]) /\ UNCHANGED l1
        ELSE IF rmode[r] = "direct"
        THEN /\ Return(r, IF Len(recs) = 0 THEN "empty" ELSE "ok", recs, "L3", rh[r])
             /\ UNCHANGED l1
        ELSE IF Len(recs) = 0
        THEN /\ l1' = MemSet(l1, rkey[r], recs, 1, now)
             /\ Return(r, "empty", <<>>, "L3", [rh[r] EXCEPT !.wrote = TRUE])
        ELSE /\ rrecs' = [rrecs EXCEPT ![r] = recs]
             /\ rpc' = [rpc EXCEPT ![r] = "l1set"]
             /\ prevRead' = NoPrev
             /\ UNCHANGED <<rmin, rres, rh, l1>>
  /\ UNCHANGED <<now, redisEnabled, svars, store, nextId, l2, wvars, updNext, deletedById, nlook>>

\* PostgresStorage.LookupRecordGroup, second statement, and the facade's
\* `if err != nil` / `if len(records) == 0` after it
LookupL3Rows(r, ok) ==
  /\ rpc[r] = "l3rows"
  /\ UNCHANGED <<rkey, rmode>>
  /\ LET recs == RecordsQuery(store, rkey[r], rmin[r])
     IN IF ~ok THEN Return(r, "err", <<>>, "L3", rh[r])
        ELSE IF GroupIsEmpty(recs) THEN Return(r, "empty", <<>>, "L3", rh[r])
        ELSE IF rmode[r] = "direct" THEN Return(r, "ok", recs, "L3", rh[r])
        ELSE /\ rrecs' = [rrecs EXCEPT ![r] = recs]
             /\ rpc' = [rpc EXCEPT ![r] = "l1set"]
             /\ prevRead' = NoPrev
             /\ UNCHANGED <<rmin, rres, rh>>
  /\ UNCHANGED <<now, redisEnabled, svars, store, nextId, l1, l2, wvars, updNext, deletedById, nlook>>

\* memoryCache.Set(cacheKey, records, l1TTL); CachedStorage then returns
LookupL1Set(r) ==
  /\ rpc[r] = "l1set"
  /\ LET ttl == L1TTL(redisEnabled, rrecs[r][1].ttl)
         h == [rh[r] EXCEPT !.l1ttl = ttl, !.recttl = rrecs[r][1].ttl, !.t0 = now,
                            !.wrote = TRUE,
                            !.l2ttl = IF redisEnabled THEN RedisL2TTL(rrecs[r][1].ttl)
                                      ELSE NoTTL]
     IN /\ l1' = MemSet(l1, rkey[r], rrecs[r], ttl, now)
        /\ UNCHANGED <<rkey, rmode>>
        /\ IF redisEnabled
           THEN /\ rpc' = [rpc EXCEPT ![r] = "l2set"]
                /\ rh' = [rh EXCEPT ![r] = h]
                /\ prevRead' = NoPrev
                /\ UNCHANGED <<rrecs, rmin, rres>>
           ELSE Return(r, "ok", rrecs[r], "L3", h)
  /\ UNCHANGED <<now, redisEnabled, svars, store, nextId, l2, wvars, updNext, deletedById, nlook>>

\* redis.SetJSONOn(client, cacheKey, records): SET without expiry, error dropped
LookupL2Set(r, ok) ==
  /\ rpc[r] = "l2set"
  /\ l2' = IF ok THEN RedisSet(l2, rkey[r], MarshalJSON(rrecs[r])) ELSE l2
  /\ rpc' = [rpc EXCEPT ![r] = "l2expire"]
  /\ prevRead' = NoPrev
  /\ UNCHANGED <<now, redisEnabled, svars, store, nextId, l1, rkey, rmode, rrecs, rmin, rres, rh,
                 wvars, updNext, deletedById, nlook>>

\* redis.ExpireOn(client, cacheKey, int(l2TTL.Seconds())), error dropped; return
LookupL2Expire(r, ok) ==
  /\ rpc[r] = "l2expire"
  /\ l2' = IF ok THEN RedisExpire(l2, rkey[r], RedisL2TTL(rrecs[r][1].ttl), now) ELSE l2
  /\ UNCHANGED <<rkey, rmode>>
  /\ Return(r, "ok", rrecs[r], "L3", rh[r])
  /\ UNCHANGED <<now, redisEnabled, svars, store, nextId, l1, wvars, updNext, deletedById, nlook>>

\* ----------------------------------------------------------- mutations
\* history: a store statement committed while lookups are in progress
SeenBy(st) ==
  [r \in Readers |->
     [rh[r] EXCEPT !.fresh = FALSE,
                   !.snaps = IF rpc[r] = "l3rows" THEN @ \cup {MinGroup(st, rkey[r])}
                             ELSE @]]

Returned(kind, k, n, l2ok) ==
  /\ wpc' = "idle"
  /\ wlast' = [kind |-> kind, key |-> k, name |-> n, l2ok |-> l2ok]
  /\ wstored' = FALSE
  /\ wkey' = NoKey
  /\ wname' = ""
  /\ widx' = 0

\* `return err`: the method ends where the store statement failed
Failed(op, k) == Returned(op, k, k[1], FALSE)

\* the facade method goes on to invalidate: kind is remembered in wlast
Invalidating(kind, k, stored) ==
  /\ wpc' = "invL1"
  /\ wkey' = k
  /\ wlast' = [kind |-> kind, key |-> k, name |-> k[1], l2ok |-> TRUE]
  /\ wstored' = stored
  /\ UNCHANGED <<wname, widx>>

\* CreateRecord of either facade, up to the return of storage.CreateRecord
\* (PostgresStorage.CreateRecord: INSERT ... RETURNING id)
CreateRecord(n, t, tg, ttl, p, ok) ==
  /\ wpc = "idle"
  /\ nmut < MaxMutations
  /\ nmut' = nmut + 1
  /\ nextId <= MaxId
  /\ IF ok
     THEN /\ store' = [store EXCEPT ![nextId] = Record(nextId, n, t, tg, ttl, p)]
          /\ nextId' = nextId + 1
          /\ rh' = SeenBy(store')
          /\ updNext' = NoKey
     ELSE UNCHANGED <<store, nextId, rh, updNext>>
  /\ IF InvalidateAfterStore(ok) THEN Invalidating("create", CacheKey(n, t), ok)
     ELSE Failed("createErr", CacheKey(n, t))
  /\ prevRead' = NoPrev
  /\ UNCHANGED <<now, redisEnabled, svars, l1, l2, rpc, rkey, rmode, rrecs, rmin, rres, deletedById, nlook>>

\* UpdateRecord of either facade, up to the return of storage.UpdateRecord
\* (PostgresStorage.UpdateRecord: UPDATE ... WHERE id = $6 RETURNING updated_at)
UpdateRecord(i, n, t, tg, ttl, p, ok) ==
  /\ wpc = "idle"
  /\ nmut < MaxMutations
  /\ nmut' = nmut + 1
  /\ LET done == ok /\ store[i] # NoRec
     IN /\ IF done
           THEN /\ store' = [store EXCEPT ![i] = Record(i, n, t, tg, ttl, p)]
                /\ rh' = SeenBy(store')
                /\ updNext' = NoKey
           ELSE UNCHANGED <<store, rh, updNext>>
        /\ IF InvalidateAfterStore(done) THEN Invalidating("update", CacheKey(n, t), done)
           ELSE Failed("updateErr", CacheKey(n, t))
  /\ prevRead' = NoPrev
  /\ UNCHANGED <<now, redisEnabled, svars, nextId, l1, l2, rpc, rkey, rmode, rrecs, rmin, rres,
                 deletedById, nlook>>

\* DeleteRecord of either facade: storage.DeleteRecord and nothing else
\* (PostgresStorage.DeleteRecord: DELETE ... WHERE id = $1, error if no row)
DeleteRecord(i, ok) ==
  /\ wpc = "idle"
  /\ nmut < MaxMutations
  /\ nmut' = nmut + 1
  /\ LET done == ok /\ store[i] # NoRec
     IN IF done
        THEN /\ store' = [store EXCEPT ![i] = NoRec]
             /\ rh' = SeenBy(store')
             /\ updNext' = NoKey
             /\ deletedById' = deletedById \cup {i}
             /\ Returned("delete", KeyOf(store[i]), store[i].name, TRUE)
        ELSE /\ UNCHANGED <<store, rh, updNext, deletedById>>
             /\ Failed("deleteErr", NoKey)
  /\ prevRead' = NoPrev
  /\ UNCHANGED <<now, redisEnabled, svars, nextId, l1, l2, rpc, rkey, rmode, rrecs, rmin, rres, nlook>>

\* DeleteRecords of either facade, up to the return of storage.DeleteRecords
\* (PostgresStorage.DeleteRecords: error if no row was deleted); t = "" is
\* "every type of the name"
DeleteRecords(n, t, ok) ==
  /\ wpc = "idle"
  /\ nmut < MaxMutations
  /\ nmut' = nmut + 1
  /\ LET hit == {i \in Ids : store[i] # NoRec /\ store[i].name = n
                            /\ (t = "" \/ store[i].type = t)}
         done == ok /\ hit # {}
     IN IF done
        THEN /\ store' = [i \in Ids |-> IF i \in hit THEN NoRec ELSE store[i]]
             /\ rh' = SeenBy(store')
             /\ updNext' = NoKey
             /\ IF t = ""
                THEN /\ wpc' = "domL1"
                     /\ wname' = n
                     /\ widx' = 1
                     /\ wkey' = NoKey
                     /\ wlast' = [kind |-> "deleteDomain", key |-> NoKey, name |-> n,
                                   l2ok |-> TRUE,
                                   quiet |-> \A r \in Readers : rpc[r] = "idle",
                                   look0 |-> nlook]
                     /\ wstored' = TRUE
                ELSE Invalidating("deleteNameType", CacheKey(n, t), TRUE)
        ELSE /\ UNCHANGED <<store, rh, updNext>>
             /\ Failed("deleteErr", NoKey)
  /\ prevRead' = NoPrev
  /\ UNCHANGED <<now, redisEnabled, svars, nextId, l1, l2, rpc, rkey, rmode, rrecs, rmin, rres,
                 deletedById, nlook>>

\* invalidateRecord / invalidateNameType: memoryCache.Delete(cacheKey)
InvalidateL1 ==
  /\ wpc = "invL1"
  /\ l1' = MemDelete(l1, wkey)
  /\ IF redisEnabled
     THEN /\ wpc' = "invL2"
          /\ UNCHANGED <<wkey, wname, widx, wlast, wstored>>
     ELSE Returned(wlast.kind, wlast.key, wlast.name, wlast.l2ok)
  /\ updNext' = IF ~redisEnabled /\ wlast.kind = "update" /\ wstored THEN wkey ELSE NoKey
  /\ prevRead' = NoPrev
  /\ UNCHANGED <<now, redisEnabled, svars, store, nextId, l2, rvars, deletedById, nmut>>

\* invalidateRecord / invalidateNameType of RedisCacheStorage:
\* redis.DeleteOn(client, cacheKey), error dropped
InvalidateL2(ok) ==
  /\ wpc = "invL2"
  /\ l2' = IF ok THEN RedisDel(l2, wkey) ELSE l2
  /\ Returned(wlast.kind, wlast.key, wlast.name, ok)
  /\ updNext' = IF wlast.kind = "update" /\ wstored /\ ok THEN wkey ELSE NoKey
  /\ prevRead' = NoPrev
  /\ UNCHANGED <<now, redisEnabled, svars, store, nextId, l1, rvars, deletedById, nmut>>

DomainKey == CacheKey(wname, commonTypes(redisEnabled)[widx])

DomainNext(ok) ==
  IF widx < Len(commonTypes(redisEnabled))
  THEN /\ wpc' = "domL1"
       /\ widx' = widx + 1
       /\ wlast' = [wlast EXCEPT !.l2ok = @ /\ ok]
       /\ UNCHANGED <<wkey, wname, wstored>>
  ELSE /\ wpc' = "idle"
       /\ wlast' = [wlast EXCEPT !.l2ok = @ /\ ok]
       /\ wstored' = FALSE
       /\ wkey' = NoKey
       /\ wname' = ""
       /\ widx' = 0

\* invalidateDomain, one pass of its loop: invalidateNameType(name, type)
InvalidateDomainL1 ==
  /\ wpc = "domL1"
  /\ l1' = IF DomainKey \in Keys THEN MemDelete(l1, DomainKey) ELSE l1
  /\ IF redisEnabled
     THEN /\ wpc' = "domL2"
          /\ UNCHANGED <<wkey, wname, widx, wlast, wstored>>
     ELSE DomainNext(TRUE)
  /\ prevRead' = NoPrev
  /\ UNCHANGED <<now, redisEnabled, svars, store, nextId, l2, rvars, updNext, deletedById, nmut>>

InvalidateDomainL2(ok) ==
  /\ wpc = "domL2"
  /\ l2' = IF ok /\ DomainKey \in Keys THEN RedisDel(l2, DomainKey) ELSE l2
  /\ DomainNext(ok)
  /\ prevRead' = NoPrev
  /\ UNCHANGED <<now, redisEnabled, svars, store, nextId, l1, rvars, updNext, deletedById, nmut>>

\* ----------------------------------------------------------- environment
Tick ==
  /\ now < MaxTime
  /\ now' = now + 1
  /\ UNCHANGED <<redisEnabled, svars, store, nextId, l1, l2, rvars, wvars, updNext, deletedById,
                 prevRead>>

\* MemoryCache.cleanupExpired, run by cleanupLoop on every tick of its ticker
CleanupExpired ==
  /\ l1' = MemCleanupExpired(l1, now)
  /\ UNCHANGED <<now, redisEnabled, svars, store, nextId, l2, rvars, wvars, updNext, deletedById,
                 prevRead>>

Next ==
  \/ \E r \in Readers, k \in LookupKeys : LookupL1Get(r, k)
  \/ \E r \in Readers, k \in LookupKeys : LookupDirect(r, k)
  \/ \E r \in Readers, ok \in BOOLEAN : LookupL2Get(r, ok)
  \/ \E r \in Readers : LookupL2HitSet(r)
  \/ \E r \in Readers, ok \in BOOLEAN : LookupL3Min(r, ok)
  \/ \E r \in Readers, ok \in BOOLEAN : LookupL3Rows(r, ok)
  \/ \E r \in Readers : LookupL1Set(r)
  \/ \E r \in Readers, ok \in BOOLEAN : LookupL2Set(r, ok)
  \/ \E r \in Readers, ok \in BOOLEAN : LookupL2Expire(r, ok)
  \/ \E n \in Names, t \in UsedTypes, tg \in Targets, ttl \in TTLs, p \in Priorities,
        ok \in BOOLEAN : CreateRecord(n, t, tg, ttl, p, ok)
  \/ \E i \in Ids, n \in Names, t \in UsedTypes, tg \in Targets, ttl \in TTLs,
        p \in Priorities, ok \in BOOLEAN : UpdateRecord(i, n, t, tg, ttl, p, ok)
  \/ \E i \in Ids, ok \in BOOLEAN : DeleteRecord(i, ok)
  \/ \E n \in Names, t \in UsedTypes \cup {""}, ok \in BOOLEAN : DeleteRecords(n, t, ok)
  \/ InvalidateL1
  \/ \E ok \in BOOLEAN : InvalidateL2(ok)
  \/ InvalidateDomainL1
  \/ \E ok \in BOOLEAN : InvalidateDomainL2(ok)
  \/ Tick
  \/ CleanupExpired

Spec == Init /\ [][Next]_vars

\* ------------------------------------------------------------- properties
L1Holds(k) == MemGetFound(l1, k, now)
L2Holds(k) == RedisLive(l2, k, now)
L2Group(k) == UnmarshalJSON(l2[k].data)

\* C1: once a create or update of a record with (name, type) has returned (no
\* Redis command of it having failed), neither L1 nor L2 holds for that key a
\* record group other than the store's current one: no lookup's set of
\* pre-mutation data lands after the mutation's delete.
C1_NoStaleSetAfterMutation ==
  (wpc = "idle" /\ wlast.kind \in {"create", "update"} /\ wlast.l2ok) =>
     /\ L1Holds(wlast.key) => l1.data[wlast.key].records = MinGroup(store, wlast.key)
     /\ L2Holds(wlast.key) => L2Group(wlast.key) = MinGroup(store, wlast.key)

\* C2: the records LookupRecordGroup returns are the minimum-priority group of
\* one store state that existed during the call.
C2_LookupGroupIsOneSnapshot ==
  \A r \in Readers : rres[r].kind # "none" => rres[r].snapok

\* C3: the very next resolve of (name, type) after update(r) has returned (no
\* Redis command of the update having failed, no other mutation since) returns
\* the store's current group for the key, with r as updated.
C3_NextResolveReflectsUpdate ==
  \A r \in Readers :
    (rres[r].kind \in {"ok", "empty"} /\ rres[r].fresh /\ ~rres[r].l3err)
       => rres[r].current

\* C4: a read through the facade that starts after DeleteRecord(id) has
\* returned nil returns no record with that id.
C4_DeletedRecordOmitted ==
  \A r \in Readers :
    rres[r].kind = "ok" =>
      \A j \in 1..Len(rres[r].recs) : rres[r].recs[j].id \notin rres[r].delAtStart

\* C5: CreateRecord and UpdateRecord run the store statement first, and that
\* step touches no cache; the deletes of the key from L1 and L2 are steps taken
\* only when the store statement succeeded; a failed store statement ends the
\* method with the store, L1 and L2 as they were.
C5_StoreFirstThenInvalidate ==
  [][ /\ (nmut' # nmut) => (l1' = l1 /\ l2' = l2)
      /\ (wpc \in {"invL1", "invL2"} /\ wlast.kind \in {"create", "update"}) => wstored
      /\ (nmut' # nmut /\ wlast'.kind \in {"createErr", "updateErr"}) =>
            (store' = store /\ l1' = l1 /\ l2' = l2 /\ wpc' = "idle")
    ]_vars

\* a create or update failed in the store while L1 held an entry of its key
C5_FailedMutationKeptEntry ==
  /\ wpc = "idle"
  /\ wlast.kind \in {"createErr", "updateErr"}
  /\ L1Holds(wlast.key)

\* C6: once DeleteRecords(name, "") has returned nil (no Redis command of it
\* having failed, no lookup in progress during it), L1 and L2 hold no entry for
\* (name, T), for each of the eleven record types T.
C6_DomainDeleteClearsAllTypes ==
  (wpc = "idle" /\ wlast.kind = "deleteDomain" /\ wlast.l2ok
     /\ wlast.quiet /\ wlast.look0 = nlook) =>
    \A T \in RecordTypes :
      CacheKey(wlast.name, T) \in Keys =>
        /\ ~L1Holds(CacheKey(wlast.name, T))
        /\ ~L2Holds(CacheKey(wlast.name, T))

\* C7: a lookup that returns empty has been to L3 and leaves L1 and L2 as they
\* were, and no entry of L1 or L2 ever holds an empty group: an absent key is
\* looked up in L3 by every read of it.
C7_NoNegativeCaching ==
  /\ [](\A k \in Keys :
          /\ l1.data[k] # NoEntry => Len(l1.data[k].records) > 0
          /\ l2[k] # NoEntry => Len(l2[k].data) > 0)
  /\ [][ \A r \in Readers :
          (rpc[r] # "idle" /\ rpc'[r] = "idle" /\ rres'[r].kind = "empty") =>
             /\ rres'[r].src = "L3"
             /\ rres'[r].l3calls = 1
             /\ ~rres'[r].wrote
             /\ l1' = l1
             /\ l2' = l2
      ]_vars

\* two lookups of keys that never had a row have both been to L3 and returned empty
C7_AbsentKeyReadTwice ==
  /\ nmut = 0
  /\ nlook >= 2
  /\ \E r \in Readers :
       /\ rres[r].kind = "empty"
       /\ ~rres[r].l3err
       /\ rres[r].l3calls = 1

\* C8: the L1 entry a lookup writes (after an L2 hit or after L3) expires
\* floor(ttl / 10) seconds after the write, and the L2 entry a lookup has
\* written expires floor(ttl / 2) seconds after its write, ttl being the TTL
\* of the first record of the group.
C8_ReadTTLsAreTenthAndHalf ==
  [][ \A r \in Readers :
        /\ (rpc[r] \in {"l1set", "l2hit"} /\ rpc'[r] # rpc[r]) =>
              l1'.data[rkey[r]].expiresAt = now + (rrecs[r][1].ttl \div 10)
        /\ (rpc[r] = "l2expire" /\ rpc'[r] = "idle"
              /\ l2'[rkey[r]] # NoEntry
              /\ l2'[rkey[r]].data = MarshalJSON(rrecs[r])) =>
              l2'[rkey[r]].expireAt = now + (rrecs[r][1].ttl \div 2)
    ]_vars

C10_SecondResolveFromL1 ==
  \A r \in Readers :
    /\ rpc[r] # "idle" => ~rh[r].warm
    /\ (rres[r].kind # "none" /\ rres[r].warm) =>
          /\ rres[r].kind = "ok"
          /\ rres[r].src = "L1"
          /\ rres[r].l3calls + rres[r].prevl3 = 1

\* the second of two such lookups has returned, a tick after the first
C10_SecondLookupHit ==
  \E r \in Readers :
    /\ rres[r].kind = "ok"
    /\ rres[r].warm
    /\ rres[r].src = "L1"
    /\ rres[r].gap > 0

\* =================================================== the DNS server
\* A second specification: the server answering requests one at a time over
\* a store nobody writes to.  A storage call is one step here.
MaxServeId == 2
MaxServeTime == 5
MaxRequests == 2
MaxFaults == 1

ServeIds == 1..MaxServeId
ServeTTL == 10

\* the rows dns_records may hold: (name, type, priority)
ServeRows ==
  {<<"www.test.internal", "A", 10>>, <<"www.test.internal", "A", 20>>,
   <<"www.test.internal", "SOA", 10>>, <<"test.internal", "SOA", 10>>,
   <<"test.internal", "MX", 10>>, <<"test.internal", "MX", 20>>,
   <<"*.test.internal", "A", 10>>}

TargetOf(i) ==
  CASE i = 1 -> "10.0.0.1"
    [] i = 2 -> "10.0.0.2"
    [] i = 3 -> "10.0.0.3"
    [] OTHER -> "10.0.0.4"

ServeStores ==
  {st \in [ServeIds -> {NoRec} \cup
                       {Record(i, x[1], x[2], TargetOf(i), ServeTTL, x[3]) :
                          i \in ServeIds, x \in ServeRows}] :
     \A i \in ServeIds : st[i] = NoRec \/ st[i].id = i}

\* how a storage call goes for Redis ("ok"; "get": GetJSONFrom fails; "all":
\* every command fails) and for the store ("ok"; "min": the first statement
\* of LookupRecordGroup fails; "rows": the second, or the one of LookupRecords)
L2Faults == {"ok", "get", "all"}
L3Faults == {"ok", "min", "rows"}

\* PostgresStorage.LookupRecordGroup
PostgresLookupRecordGroup(st, k, f3) ==
  IF f3 = "min" THEN [recs |-> <<>>, err |-> FALSE]
  ELSE IF f3 = "rows" THEN [recs |-> <<>>, err |-> TRUE]
  ELSE [recs |-> MinGroup(st, k), err |-> FALSE]

\* what a facade's LookupRecord hands back, with what the call did
Looked(c, r, rec, err, src, group, k, t, f2, f3) ==
  [l1 |-> c, l2 |-> r,
   call |-> [kind |-> "record", rec |-> rec, err |-> err, src |-> src, group |-> group,
             key |-> k, t |-> t, l2err |-> f2 # "ok", f2 |-> f2, f3 |-> f3]]

\* PostgresStorage.LookupRecord
PostgresLookupRecord(c, r, st, tb, k, t, f3) ==
  LET g == PostgresLookupRecordGroup(st, k, f3)
  IN IF g.err THEN Looked(c, r, NoRec, TRUE, "L3", <<>>, k, t, "ok", f3)
     ELSE IF GroupIsEmpty(g.recs) THEN Looked(c, r, NoRec, FALSE, "L3", <<>>, k, t, "ok", f3)
     ELSE Looked(c, r, selectFromGroup(tb, g.recs, k, t), FALSE, "L3", g.recs, k, t,
                 "ok", f3)

\* CachedStorage.LookupRecord
CachedLookupRecord(c, r, st, tb, k, t, f3) ==
  LET recs == MemGetRecords(c, k, t)
      c1 == MemGetCache(c, k, t)
      g == PostgresLookupRecordGroup(st, k, f3)
  IN IF CacheHit(MemGetFound(c, k, t), recs)
     THEN Looked(c1, r, cachedSelectFromArray(tb, recs, k, t), FALSE, "L1", recs, k, t,
                 "ok", "ok")
     ELSE IF g.err THEN Looked(c1, r, NoRec, TRUE, "L3", <<>>, k, t, "ok", f3)
     ELSE IF GroupIsEmpty(g.recs) THEN Looked(c1, r, NoRec, FALSE, "L3", <<>>, k, t, "ok", f3)
     ELSE Looked(MemSet(c1, k, g.recs, CachedL1TTL(g.recs[1].ttl), t), r,
                 cachedSelectFromArray(tb, g.recs, k, t), FALSE, "L3", g.recs, k, t,
                 "ok", f3)

\* redis.GetJSONFrom: GET, then json.Unmarshal into the caller's slice.  A GET
\* that fails (or finds no key) leaves the slice as it was; a value that does
\* not decode leaves in it what was decoded before the error
GetJSONFrom(r, k, t, f2) ==
  IF f2 = "all" \/ ~RedisLive(r, k, t) THEN [err |-> TRUE, recs |-> <<>>]
  ELSE IF f2 = "get" THEN [err |-> TRUE, recs |-> SubSeq(UnmarshalJSON(r[k].data), 1, 1)]
  ELSE [err |-> FALSE, recs |-> UnmarshalJSON(r[k].data)]

\* `err == nil && len(records) > 0` after GetJSONFrom
RedisHitAnyway(j) == Len(j.recs) > 0
RedisHit(j) == ~j.err /\ Len(j.recs) > 0

\* RedisCacheStorage.LookupRecord
RedisLookupRecord(c, r, st, k, t, f2, f3) ==
  LET recs == MemGetRecords(c, k, t)
      c1 == MemGetCache(c, k, t)
      j == GetJSONFrom(r, k, t, f2)
      g == PostgresLookupRecordGroup(st, k, f3)
      r1 == IF f2 = "all" THEN r
            ELSE RedisExpire(RedisSet(r, k, MarshalJSON(g.recs)), k,
                             RedisL2TTL(g.recs[1].ttl), t)
  IN IF CacheHit(MemGetFound(c, k, t), recs)
     THEN Looked(c1, r, redisSelectFromArray(recs), FALSE, "L1", recs, k, t, "ok", "ok")
     ELSE IF RedisHit(j)
     THEN Looked(MemSet(c1, k, j.recs, RedisL1TTL(j.recs[1].ttl), t), r,
                 redisSelectFromArray(j.recs), FALSE, "L2", j.recs, k, t, f2, "ok")
     ELSE IF g.err THEN Looked(c1, r, NoRec, TRUE, "L3", <<>>, k, t, f2, f3)
     ELSE IF GroupIsEmpty(g.recs) THEN Looked(c1, r, NoRec, FALSE, "L3", <<>>, k, t, f2, f3)
     ELSE Looked(MemSet(c1, k, g.recs, RedisL1TTL(g.recs[1].ttl), t), r1,
                 redisSelectFromArray(g.recs), FALSE, "L3", g.recs, k, t, f2, f3)

\* main.go: the Storage the resolver is given
Facade == IF ~srv.cacheEnabled THEN "postgres" ELSE IF redisEnabled THEN "redis" ELSE "cached"

\* storage.LookupRecord(ctx, query) on that Storage
StorageLookupRecord(k, f2, f3) ==
  CASE Facade = "postgres" -> PostgresLookupRecord(l1, l2, store, srv.tieBreaker, k, now, f3)
    [] Facade = "cached" -> CachedLookupRecord(l1, l2, store, srv.tieBreaker, k, now, f3)
    [] OTHER -> RedisLookupRecord(l1, l2, store, k, now, f2, f3)

\* PostgresStorage.LookupRecords: every row of the key, ORDER BY priority ASC;
\* the statement leaves the order of rows of equal priority to the database
LookupRecordsOrders(st, k) ==
  LET n == Cardinality(Rows(st, k))
  IN {[j \in 1..n |-> st[ord[j]]] :
        ord \in {o \in [1..n -> Rows(st, k)] :
                   /\ \A a, b \in 1..n : a # b => o[a] # o[b]
                   /\ \A a, b \in 1..n : a < b => st[o[a]].priority <= st[o[b]].priority}}

\* Server.createResourceRecord: a resource record when the record's type is the
\* one asked for and is one the server builds, nil otherwise
NoRR == [rrtype |-> ""]
BuiltTypes == {"A", "AAAA", "CNAME", "TXT", "MX", "NS", "SOA", "PTR", "SRV"}
createResourceRecord(rec, qtype) ==
  IF rec.type = qtype /\ qtype \in BuiltTypes
  THEN [rrtype |-> qtype, name |-> Fqdn(rec.name), ttl |-> rec.ttl, data |-> rec.target,
        preference |-> rec.priority]
  ELSE NoRR

\* Server.processQuestion after Resolve, and the Rcode handleDNSRequest sets
\* when processQuestion returned an error
AnsweredNoData(rec, err, qtype) ==
  IF err THEN [rcode |-> "SERVFAIL", answer |-> <<>>, perr |-> TRUE]
  ELSE IF rec = NoRec THEN [rcode |-> "NOERROR", answer |-> <<>>, perr |-> FALSE]
  ELSE [rcode |-> "NOERROR", answer |-> <<rec>>, perr |-> FALSE]
Answered(rec, err, qtype) ==
  IF err THEN [rcode |-> "SERVFAIL", answer |-> <<>>, perr |-> TRUE]
  ELSE IF rec = NoRec THEN [rcode |-> "NXDOMAIN", answer |-> <<>>, perr |-> FALSE]
  ELSE IF createResourceRecord(rec, qtype) = NoRR
  THEN [rcode |-> "NXDOMAIN", answer |-> <<>>, perr |-> FALSE]
  ELSE [rcode |-> "NOERROR", answer |-> <<createResourceRecord(rec, qtype)>>,
        perr |-> FALSE]

\* Server.processQuestion after ResolveAll
AnsweredAll(recs, err, qtype) ==
  IF err THEN [rcode |-> "SERVFAIL", answer |-> <<>>, perr |-> TRUE]
  ELSE IF Len(recs) = 0 THEN [rcode |-> "NXDOMAIN", answer |-> <<>>, perr |-> FALSE]
  ELSE [rcode |-> "NOERROR",
        answer |-> SelectSeq([j \in 1..Len(recs) |-> createResourceRecord(recs[j], qtype)],
                             LAMBDA rr : rr # NoRR),
        perr |-> FALSE]

MultiTypes == {"SRV", "MX", "NS"}

\* the query processQuestion builds from the question
Query == NewLookupQuery(srv.question.name, srv.question.qtype)

ServeInit ==
  /\ now = 0
  /\ redisEnabled \in BOOLEAN
  /\ store \in ServeStores
  /\ nextId = MaxServeId + 1
  /\ l1 = EmptyCache
  /\ l2 = [k \in Keys |-> NoEntry]
  /\ rpc = [r \in Readers |-> "idle"]
  /\ rkey = [r \in Readers |-> NoKey]
  /\ rmode = [r \in Readers |-> "cached"]
  /\ rrecs = [r \in Readers |-> <<>>]
  /\ rmin = [r \in Readers |-> 0]
  /\ rres = [r \in Readers |-> NoResult]
  /\ rh = [r \in Readers |-> NoHist]
  /\ wpc = "idle"
  /\ wkey = NoKey
  /\ wname = ""
  /\ widx = 0
  /\ wlast = NoLast
  /\ wstored = FALSE
  /\ updNext = NoKey
  /\ deletedById = {}
  /\ prevRead = NoPrev
  /\ nlook = 0
  /\ nmut = 0
  /\ \E cache \in BOOLEAN, tb \in {"round_robin", "random"} :
       /\ cache \/ ~redisEnabled
       /\ (cache /\ redisEnabled) => tb = "round_robin"
       /\ srv = ServerIdle(cache, tb)
  /\ mc = NewMemoryCache(MaxEntries)
  /\ nm = NameGiven(<<>>)
  /\ we = NoEngine
  /\ sd = Serving
  /\ hd = NoHandlers
  /\ md = NoModels

\* handleDNSRequest begins: msg.SetReply(r), then the one question of the
\* request; a client that asks again repeats its question
Receive(q) ==
  /\ srv.pc = "idle"
  /\ srv.nreq < MaxRequests
  /\ srv.nreq > 0 => q = <<srv.question.name, srv.question.qtype>>
  /\ srv' = [srv EXCEPT !.pc = "resolve", !.question = [name |-> q[1], qtype |-> q[2]],
                         !.walk = 1, !.msg = NoMsg, !.res = NoCall, !.prev = srv.last,
                         !.last = NoCall, !.l2fault = FALSE, !.l3fault = FALSE,
                         !.nreq = srv.nreq + 1]
  /\ UNCHANGED <<mc, nm, we, sd, hd, md, now, redisEnabled, store, nextId, l1, l2, rvars, wvars, updNext,
                 deletedById, prevRead>>

\* a dependency may fail in a storage call while failures are left
Faulty(f2, f3) == f2 # "ok" \/ f3 # "ok"
MayFail(f2, f3) == Faulty(f2, f3) => srv.nfault < MaxFaults

\* a dependency did fail in the call
Befell(c) == c.l2err \/ c.f3 # "ok"

\* the reply is written
Reply(c, rec, err, m) ==
  srv' = [srv EXCEPT !.pc = "idle", !.last = c, !.res = [kind |-> "res", rec |-> rec, err |-> err],
                     !.msg = m,
                     !.l2fault = srv.l2fault \/ c.l2err,
                     !.l3fault = srv.l3fault \/ c.f3 # "ok",
                     !.nfault = srv.nfault + IF Befell(c) THEN 1 ELSE 0]

\* processQuestion for a single-answer type other than SOA: Resolver.Resolve is
\* storage.LookupRecord
ProcessQuestion(f2, f3) ==
  /\ srv.pc = "resolve"
  /\ srv.question.qtype \notin MultiTypes \cup {"SOA"}
  /\ Facade = "redis" \/ f2 = "ok"
  /\ MayFail(f2, f3)
  /\ LET c == StorageLookupRecord(CacheKey(Query.name, Query.type), f2, f3)
     IN /\ l1' = c.l1
        /\ l2' = c.l2
        /\ Reply(c.call, c.call.rec, c.call.err,
                 Answered(c.call.rec, c.call.err, srv.question.qtype))
  /\ UNCHANGED <<mc, nm, we, sd, hd, md, now, redisEnabled, store, nextId, rvars, wvars, updNext, deletedById,
                 prevRead>>

\* processQuestion for SOA: one turn of the loop of Resolver.resolveSOA, and
\* the rest of processQuestion when the loop ends
ResolveSOA(f2, f3) ==
  /\ srv.pc = "resolve"
  /\ srv.question.qtype = "SOA"
  /\ Facade = "redis" \/ f2 = "ok"
  /\ MayFail(f2, f3)
  /\ LET domains == generateDomainHierarchy(Query.name)
         c == StorageLookupRecord(CacheKey(domains[srv.walk], "SOA"), f2, f3)
         resultRecord == [c.call.rec EXCEPT !.name = Query.name]
     IN /\ l1' = c.l1
        /\ l2' = c.l2
        /\ IF c.call.err
           THEN Reply(c.call, NoRec, TRUE, Answered(NoRec, TRUE, "SOA"))
           ELSE IF c.call.rec # NoRec
           THEN Reply(c.call, resultRecord, FALSE, Answered(resultRecord, FALSE, "SOA"))
           ELSE IF srv.walk < Len(domains)
           THEN srv' = [srv EXCEPT !.walk = srv.walk + 1, !.last = c.call,
                                   !.l2fault = srv.l2fault \/ c.call.l2err,
                                   !.l3fault = srv.l3fault \/ c.call.f3 # "ok",
                                   !.nfault = srv.nfault + IF Befell(c.call) THEN 1 ELSE 0]
           ELSE Reply(c.call, NoRec, FALSE, Answered(NoRec, FALSE, "SOA"))
  /\ UNCHANGED <<mc, nm, we, sd, hd, md, now, redisEnabled, store, nextId, rvars, wvars, updNext, deletedById,
                 prevRead>>

\* processQuestion for SRV, MX and NS: Resolver.ResolveAll is
\* storage.LookupRecords, which every facade hands to PostgresStorage
ResolveAll(ok, recs) ==
  /\ srv.pc = "resolve"
  /\ srv.question.qtype \in MultiTypes
  /\ ok \/ srv.nfault < MaxFaults
  /\ LET c == [kind |-> "records", recs |-> IF ok THEN recs ELSE <<>>, err |-> ~ok,
               key |-> CacheKey(Query.name, Query.type), t |-> now, l2err |-> FALSE,
               f3 |-> IF ok THEN "ok" ELSE "rows"]
     IN Reply(c, NoRec, ~ok, AnsweredAll(c.recs, ~ok, srv.question.qtype))
  /\ UNCHANGED <<mc, nm, we, sd, hd, md, now, redisEnabled, store, nextId, l1, l2, rvars, wvars, updNext,
                 deletedById, prevRead>>

\* a second passes between two requests (a request is handled in far less)
ServeTick ==
  /\ srv.pc = "idle"
  /\ srv.nreq < MaxRequests
  /\ now < MaxServeTime
  /\ now' = now + 1
  /\ UNCHANGED <<redisEnabled, store, nextId, l1, l2, rvars, wvars, updNext, deletedById,
                 prevRead, svars>>

ServeNext ==
  \/ \E q \in Questions : Receive(q)
  \/ \E f2 \in L2Faults, f3 \in L3Faults : ProcessQuestion(f2, f3)
  \/ \E f2 \in L2Faults, f3 \in L3Faults : ResolveSOA(f2, f3)
  \/ \E ok \in BOOLEAN :
       \E recs \in LookupRecordsOrders(store, CacheKey(Query.name, Query.type)) :
         ResolveAll(ok, recs)
  \/ ServeTick

SpecServe == ServeInit /\ [][ServeNext]_vars

\* ------------------------------------------------------------ C11
\* C11: a storage call in which Redis failed (connection error, timeout, a value
\* that does not decode) went on to the store and handed back what the store
\* gave: the store's group, a record of it, the store's error if the store
\* failed too, and no error otherwise
C11_L2FailureFallsThroughToL3 ==
  (srv.last # NoCall /\ srv.last.kind = "record" /\ srv.last.l2err) =>
    LET g == PostgresLookupRecordGroup(store, srv.last.key, srv.last.f3)
    IN /\ srv.last.src = "L3"
       /\ srv.last.err = g.err
       /\ srv.last.group = g.recs
       /\ srv.last.rec = redisSelectFromArray(g.recs)
       /\ srv.last.f3 = "ok" => ~srv.last.err /\ srv.msg.rcode # "SERVFAIL"

\* C11 witness: the first request filled Redis from the store; the second came
\* after the L1 entry had expired and while the Redis key was live, its value
\* did not decode, and the request was answered from the store
C11_UndecodableValueAnswered ==
  /\ srv.pc = "idle"
  /\ srv.prev # NoCall /\ srv.last # NoCall
  /\ srv.prev.kind = "record" /\ srv.last.kind = "record"
  /\ srv.prev.src = "L3" /\ srv.prev.f2 = "ok" /\ srv.prev.rec # NoRec
  /\ srv.last.key = srv.prev.key
  /\ srv.last.f2 = "get"
  /\ srv.last.t > srv.prev.t + RedisL1TTL(ServeTTL)
  /\ srv.last.t < srv.prev.t + RedisL2TTL(ServeTTL)
  /\ Len(srv.last.group) = 2
  /\ srv.msg.rcode = "NOERROR"
  /\ Len(srv.msg.answer) = 1

\* ------------------------------------------------------------ C12
\* C12: a request during which a statement of the store failed got an error
\* from the resolver and is answered with the server-failure status, never
\* with the name-error status
C12_StoreFailureIsServerFailure ==
  (srv.pc = "idle" /\ srv.nreq > 0 /\ srv.l3fault) =>
    /\ srv.res.err
    /\ srv.msg.rcode = "SERVFAIL"

\* ------------------------------------------------------------ C13
\* the store holds no record the resolver would look at for the question: none
\* of the key, or for SOA none at the name or any parent
NothingStored(name, qtype) ==
  IF qtype = "SOA"
  THEN \A j \in DOMAIN generateDomainHierarchy(name) :
         Rows(store, CacheKey(generateDomainHierarchy(name)[j], "SOA")) = {}
  ELSE Rows(store, CacheKey(name, qtype)) = {}

Replied == srv.pc = "idle" /\ srv.nreq > 0

\* C13: a request for which there is no record, handled with no failure of
\* Redis or the store, is answered NXDOMAIN with no answer, and processQuestion
\* returned no error
C13_NoRecordIsNameError ==
  (/\ Replied
   /\ ~srv.l2fault /\ ~srv.l3fault
   /\ NothingStored(Query.name, Query.type)) =>
    /\ srv.msg.rcode = "NXDOMAIN"
    /\ srv.msg.answer = <<>>
    /\ ~srv.msg.perr
    /\ ~srv.res.err

\* C13 witness: an A question answered NXDOMAIN by a server whose store holds
\* records of other keys
C13_NameErrorForAbsentKey ==
  /\ Replied
  /\ ~srv.l2fault /\ ~srv.l3fault
  /\ srv.question.qtype = "A"
  /\ NothingStored(Query.name, Query.type)
  /\ \A i \in ServeIds : store[i] # NoRec
  /\ srv.msg.rcode = "NXDOMAIN"

\* ------------------------------------------------------------ C14
\* the last storage call read the record group from the store, which answered
ReadGroupFromStore ==
  /\ srv.last # NoCall
  /\ srv.last.kind = "record"
  /\ srv.last.src = "L3"
  /\ srv.last.f3 = "ok"

\* C14: the group LookupRecordGroup returned holds exactly the rows of the key
\* whose priority is the least among the rows of the key, each as stored, in
\* ascending order of id; it is empty when the key has no row
C14_GroupIsMinPriorityByIdAsc ==
  ReadGroupFromStore =>
    LET g == srv.last.group
        k == srv.last.key
    IN /\ {g[j].id : j \in 1..Len(g)} =
            {i \in ServeIds :
               /\ store[i] # NoRec /\ KeyOf(store[i]) = k
               /\ \A i2 \in ServeIds :
                    (store[i2] # NoRec /\ KeyOf(store[i2]) = k)
                      => store[i].priority <= store[i2].priority}
       /\ \A j \in 1..Len(g) : g[j] = store[g[j].id]
       /\ \A a, b \in 1..Len(g) : a < b => g[a].id < g[b].id
       /\ (\A i \in ServeIds : store[i] = NoRec \/ KeyOf(store[i]) # k) => g = <<>>

\* C14 witness: the key has two rows, and the group is the one of lower
\* priority value, which has the higher id
C14_GroupLeavesOutHigherPriorityValue ==
  /\ ReadGroupFromStore
  /\ Cardinality(Rows(store, srv.last.key)) = 2
  /\ Len(srv.last.group) = 1
  /\ srv.last.group[1].id = 2
  /\ store[1].priority > store[2].priority

\* ------------------------------------------------------------ C15
\* the last storage call was a LookupRecord that handed back a record
GotRecord ==
  /\ srv.last # NoCall
  /\ srv.last.kind = "record"
  /\ srv.last.rec # NoRec

\* C15: the record a LookupRecord hands back, from the store or from a cache,
\* is a row of the key as stored, and no row of the key has a lower priority
\* value: with a row of priority 10 stored for the key, a row of priority 20 is
\* not the answer
C15_AnswerIsOfMinPriority ==
  GotRecord =>
    /\ srv.last.rec = store[srv.last.rec.id]
    /\ KeyOf(srv.last.rec) = srv.last.key
    /\ \A i \in ServeIds :
         (store[i] # NoRec /\ KeyOf(store[i]) = srv.last.key)
           => srv.last.rec.priority <= store[i].priority

\* C15 witness: the key has a row of priority 20 with the lower id and a row of
\* priority 10; the request is answered from L1 with the row of priority 10
C15_CachedAnswerSkipsPriority20 ==
  /\ Replied
  /\ GotRecord
  /\ srv.last.src = "L1"
  /\ store[1] # NoRec /\ store[2] # NoRec
  /\ KeyOf(store[1]) = srv.last.key /\ KeyOf(store[2]) = srv.last.key
  /\ store[1].priority = 20 /\ store[2].priority = 10
  /\ srv.last.rec.id = 2
  /\ Len(srv.msg.answer) = 1

\* ------------------------------------------------------------ C16
\* the length of a time bucket of the selector, in seconds
BucketSeconds == 5
Bucket(t) == t \div BucketSeconds

\* two requests in a row ended in a LookupRecord of the same query that selected
\* from the same record group
TwoSelections ==
  /\ Replied
  /\ srv.prev # NoCall /\ srv.prev.kind = "record" /\ srv.prev.rec # NoRec
  /\ GotRecord
  /\ srv.last.key = srv.prev.key
  /\ srv.last.group = srv.prev.group

\* C16: two selections for the same query over the same group made in the same
\* time bucket picked the same record of the group
C16_SameBucketSameRecord ==
  (TwoSelections /\ Bucket(srv.last.t) = Bucket(srv.prev.t)) =>
    srv.last.rec = srv.prev.rec

\* C16 witness: a group of two, selected from at two different seconds of one
\* bucket by CachedStorage under round_robin
C16_TwoSecondsOneBucket ==
  /\ TwoSelections
  /\ Facade = "cached"
  /\ srv.tieBreaker = "round_robin"
  /\ Len(srv.last.group) = 2
  /\ srv.prev.t < srv.last.t
  /\ Bucket(srv.last.t) = Bucket(srv.prev.t)
  /\ srv.last.rec = srv.prev.rec

\* ------------------------------------------------------------ C17
\* C17: the records ResolveAll returned for an MX, NS or SRV question, when the
\* store answered, are all rows of the key, each as stored, in ascending order
\* of priority and, among rows of equal priority, of id
C17_AllRecordsByPriorityThenId ==
  (/\ Replied
   /\ srv.last # NoCall /\ srv.last.kind = "records"
   /\ ~srv.last.err) =>
    LET recs == srv.last.recs
    IN /\ {recs[j].id : j \in 1..Len(recs)} = Rows(store, srv.last.key)
       /\ Len(recs) = Cardinality(Rows(store, srv.last.key))
       /\ \A j \in 1..Len(recs) : recs[j] = store[recs[j].id]
       /\ \A a, b \in 1..Len(recs) :
            a < b => \/ recs[a].priority < recs[b].priority
                     \/ /\ recs[a].priority = recs[b].priority
                        /\ recs[a].id < recs[b].id

\* ------------------------------------------------------------ C18
\* the suffixes of a name, the name first and then each parent in turn
Suffixes(n) ==
  CASE n = "www.test.internal" -> <<"www.test.internal", "test.internal", "internal">>
    [] n = "test.internal" -> <<"test.internal", "internal">>
    [] OTHER -> <<n>>

\* an SOA question has been answered and no statement of the store failed
SOAReplied ==
  /\ Replied
  /\ srv.question.qtype = "SOA"
  /\ ~srv.l3fault

\* C18: the record the resolver returned for an SOA question is an SOA row
\* stored at a suffix of the query name no suffix before which has an SOA row,
\* with the query name in place of its own, and it is the answer of the reply
C18_SOAOfMostSpecificSuffix ==
  (SOAReplied /\ srv.res.rec # NoRec) =>
    \E j \in 1..Len(Suffixes(Query.name)) :
      /\ \A j2 \in 1..(j - 1) : Rows(store, CacheKey(Suffixes(Query.name)[j2], "SOA")) = {}
      /\ srv.res.rec.id \in Rows(store, CacheKey(Suffixes(Query.name)[j], "SOA"))
      /\ srv.res.rec = [store[srv.res.rec.id] EXCEPT !.name = Query.name]
      /\ srv.msg.rcode = "NOERROR"
      /\ Len(srv.msg.answer) = 1
      /\ srv.msg.answer[1].name = Fqdn(Query.name)
      /\ srv.msg.answer[1].data = store[srv.res.rec.id].target

\* C18 witness: the question is for WWW.Test.internal., the only SOA row is at
\* test.internal, and the answer is that row under the name www.test.internal
C18_ParentZoneSOA ==
  /\ SOAReplied
  /\ srv.question.name = "WWW.Test.internal."
  /\ srv.res.rec # NoRec
  /\ Rows(store, CacheKey("www.test.internal", "SOA")) = {}
  /\ store[srv.res.rec.id].name = "test.internal"
  /\ srv.res.rec.name = "www.test.internal"
  /\ srv.walk = 2

\* ------------------------------------------------------------ C19
\* C19: an SOA question for a name none of whose suffixes has an SOA row gets
\* no record and no error from the resolver, after a storage call for each
\* suffix, the last of them for the last suffix
C19_NoSOAAnywhereIsNotFound ==
  (SOAReplied /\ NothingStored(Query.name, "SOA")) =>
    /\ ~srv.res.err
    /\ srv.res.rec = NoRec
    /\ srv.walk = Len(Suffixes(Query.name))
    /\ srv.last.key = CacheKey(Suffixes(Query.name)[Len(Suffixes(Query.name))], "SOA")
    /\ ~srv.last.err

\* C19 witness: the store is full of rows that are not SOA rows, the question
\* is for WWW.Test.internal., and the resolver returned nothing after three
\* storage calls
C19_ThreeLevelsTried ==
  /\ SOAReplied
  /\ srv.question.name = "WWW.Test.internal."
  /\ \A i \in ServeIds : store[i] # NoRec /\ store[i].type # "SOA"
  /\ srv.walk = 3
  /\ srv.last.key = CacheKey("internal", "SOA")
  /\ srv.res.rec = NoRec
  /\ ~srv.res.err

\* ------------------------------------------------------------ C20
\* C20: a LookupRecord that MemoryCache.Get answered with the entry of the key
\* was made before the entry's expiry time (now < expiresAt)
C20_HitOnlyBeforeExpiry ==
  (srv.last # NoCall /\ srv.last.kind = "record" /\ srv.last.src = "L1") =>
    /\ l1.data[srv.last.key] # NoEntry
    /\ srv.last.t < l1.data[srv.last.key].expiresAt

\* ============================================ MemoryCache under concurrent callers
\* Each method is two steps under c.mu: Call takes the mutex and runs the first
\* half of the body, Unlock runs the second half and releases the mutex.

\* c.mu.Lock() returns when nobody holds the mutex, c.mu.RLock() when no writer does
LockFreeAlways(m) == TRUE
LockFree(m) == m.w = 0 /\ m.r = {}
RLockFree(m) == m.w = 0

\* the methods a caller may begin; `n` numbers the records a set stores
Methods(n) ==
  [kind : {"get", "delete"}, key : CallKeys, ttl : {0}, records : {<<>>}]
    \cup [kind : {"set"}, key : CallKeys, ttl : {CallTTL}, records : {<<n>>}]
    \cup [kind : {"clear", "stats", "sweep"}, key : {NoKey}, ttl : {0}, records : {<<>>}]

\* Set: for len(c.data) >= c.maxEntries { c.evictLRUUnlocked() }
\* (with an empty accessOrder the loop of the code would not end; the entries and
\* the order never part while the mutex is respected)
RECURSIVE EvictLoopAbove(_, _)
EvictLoopAbove(c, max) ==
  IF CacheSize(c) > max /\ Len(c.order) > 0
  THEN EvictLoopAbove(evictLRUUnlocked(c), max)
  ELSE c
RECURSIVE EvictLoop(_, _)
EvictLoop(c, max) ==
  IF CacheSize(c) >= max /\ Len(c.order) > 0
  THEN EvictLoop(evictLRUUnlocked(c), max)
  ELSE c

\* first half of a method's body, on m = [c, stats] at time t
Begin(m, call, t, max) ==
  LET k == call.key
      here == k # NoKey /\ m.c.data[k] # NoEntry
  IN CASE call.kind = "get" ->
            \* entry, exists := c.data[key]; entry.isExpired()
            [m |-> m,
             loc |-> [NoLocals EXCEPT !.exists = here,
                        !.expired = here /\ isExpired(m.c.data[k], t),
                        !.records = IF here THEN m.c.data[k].records ELSE <<>>]]
       [] call.kind = "set" ->
            \* now := time.Now(); the existence test; the eviction loop
            IF here THEN [m |-> m, loc |-> [NoLocals EXCEPT !.exists = TRUE, !.now = t]]
            ELSE LET e == EvictLoop(m.c, max)
                 IN [m |-> [c |-> e,
                            stats |-> [m.stats EXCEPT
                                         !.evictions = @ + Len(m.c.order) - Len(e.order)]],
                     loc |-> [NoLocals EXCEPT !.now = t]]
       [] call.kind = "delete" ->
            \* deleteUnlocked: delete(c.data, key)
            [m |-> [m EXCEPT !.c.data[k] = NoEntry], loc |-> NoLocals]
       [] call.kind = "clear" ->
            \* c.data = make(map[string]*cacheEntry)
            [m |-> [m EXCEPT !.c.data = [j \in Keys |-> NoEntry]], loc |-> NoLocals]
       [] call.kind = "stats" ->
            \* stats := c.stats
            [m |-> m,
             loc |-> [NoLocals EXCEPT !.hits = m.stats.hits, !.misses = m.stats.misses,
                        !.evictions = m.stats.evictions]]
       [] OTHER ->
            \* cleanupExpired: now := time.Now(); the expired keys are collected
            [m |-> m,
             loc |-> [NoLocals EXCEPT
                        !.now = t,
                        !.keys = {j \in Keys : m.c.data[j] # NoEntry
                                                /\ t > m.c.data[j].expiresAt}]]

\* second half of a method's body, and what the method returns
Finish(m, call, loc) ==
  LET k == call.key
  IN CASE call.kind = "get" ->
            IF ~loc.exists
            THEN [m |-> [m EXCEPT !.stats.misses = @ + 1], ret |-> NoReturn]
            ELSE IF loc.expired
            THEN [m |-> [c |-> deleteUnlocked(m.c, k),
                         stats |-> [m.stats EXCEPT !.misses = @ + 1]],
                  ret |-> NoReturn]
            ELSE [m |-> [c |-> moveToFrontUnlocked(m.c, k),
                         stats |-> [m.stats EXCEPT !.hits = @ + 1]],
                  ret |-> [NoReturn EXCEPT !.found = TRUE, !.records = loc.records]]
       [] call.kind = "set" ->
            LET stored == [m.c EXCEPT
                             !.data[k] = NewEntry(call.records, loc.now, call.ttl)]
            IN [m |-> [m EXCEPT !.c = IF loc.exists
                                      THEN moveToFrontUnlocked(stored, k)
                                      ELSE [stored EXCEPT !.order = <<k>> \o @]],
                ret |-> NoReturn]
       [] call.kind = "delete" ->
            \* deleteUnlocked: the key leaves accessOrder
            [m |-> [m EXCEPT !.c.order = RemoveFirst(@, k)], ret |-> NoReturn]
       [] call.kind = "clear" ->
            \* c.accessOrder = c.accessOrder[:0]
            [m |-> [m EXCEPT !.c.order = <<>>], ret |-> NoReturn]
       [] call.kind = "stats" ->
            \* stats.Entries = len(c.data)
            [m |-> m,
             ret |-> [NoReturn EXCEPT !.hits = loc.hits, !.misses = loc.misses,
                        !.evictions = loc.evictions, !.entries = CacheSize(m.c)]]
       [] OTHER ->
            [m |-> [m EXCEPT !.c = DeleteAll(@, loc.keys)], ret |-> NoReturn]

\* a method run alone, from c.mu.Lock() to the deferred Unlock
Sequential(m, call, t, max) ==
  LET b == Begin(m, call, t, max) IN Finish(b.m, call, b.loc)

Present(c) == {k \in Keys : c.data[k] # NoEntry}

\* the stamps of the entries that remain, `k` (if any) stamped afresh
Accessed(c, k) ==
  [j \in Keys |-> IF c.data[j] = NoEntry THEN 0
                  ELSE IF j = k THEN mc.tick ELSE mc.access[j]]

CacheInit ==
  /\ now = 0
  /\ redisEnabled = FALSE
  /\ store = [i \in Ids |-> NoRec]
  /\ nextId = 1
  /\ l1 = EmptyCache
  /\ l2 = [k \in Keys |-> NoEntry]
  /\ rpc = [r \in Readers |-> "idle"]
  /\ rkey = [r \in Readers |-> NoKey]
  /\ rmode = [r \in Readers |-> "cached"]
  /\ rrecs = [r \in Readers |-> <<>>]
  /\ rmin = [r \in Readers |-> 0]
  /\ rres = [r \in Readers |-> NoResult]
  /\ rh = [r \in Readers |-> NoHist]
  /\ wpc = "idle"
  /\ wkey = NoKey
  /\ wname = ""
  /\ widx = 0
  /\ wlast = NoLast
  /\ wstored = FALSE
  /\ updNext = NoKey
  /\ deletedById = {}
  /\ prevRead = NoPrev
  /\ nlook = 0
  /\ nmut = 0
  /\ srv = ServerIdle(TRUE, "round_robin")
  /\ \E max \in 1..MaxCapacity : mc = NewMemoryCache(max)
  /\ nm = NameGiven(<<>>)
  /\ we = NoEngine
  /\ sd = Serving
  /\ hd = NoHandlers
  /\ md = NoModels

ckept ==
  <<redisEnabled, store, nextId, l2, rvars, wvars, updNext, deletedById, prevRead, srv,
    nm, we, sd, hd, md>>

\* caller p takes the mutex and runs the first half of `call`
Call(p, call) ==
  /\ mc.pc[p] = "idle"
  /\ mc.ncalls < MaxCalls
  /\ IF call.kind = "stats" THEN RLockFree(mc.mu) ELSE LockFree(mc.mu)
  /\ LET b == Begin([c |-> l1, stats |-> mc.stats], call, now, mc.maxEntries)
         s == Sequential(mc.seq, call, now, mc.maxEntries)
         gone == Present(l1) \ Present(b.m.c)
         evicts == call.kind = "set" /\ gone # {}
     IN /\ l1' = b.m.c
        /\ mc' = [mc EXCEPT
                    !.mu = IF call.kind = "stats" THEN [@ EXCEPT !.r = @ \cup {p}]
                           ELSE [@ EXCEPT !.w = p],
                    !.stats = b.m.stats,
                    !.pc[p] = "body", !.call[p] = call, !.loc[p] = b.loc,
                    !.ret[p] = NoReturn,
                    !.seq = s.m, !.want[p] = s.ret,
                    !.tick = @ + 1, !.ncalls = @ + 1,
                    !.access = Accessed(b.m.c, NoKey),
                    !.hit = IF evicts \/ (@ # NoKey /\ b.m.c.data[@] = NoEntry)
                            THEN NoKey ELSE @,
                    !.ev = IF evicts
                           THEN [key |-> CHOOSE k \in gone : TRUE,
                                 oldest |-> {k \in Present(l1) : \A j \in Present(l1) :
                                               mc.access[k] <= mc.access[j]},
                                 hit |-> mc.hit, full |-> CacheSize(l1)]
                           ELSE @]
  /\ UNCHANGED <<now, ckept>>

\* caller p runs the second half of its method, releases the mutex and returns
Unlock(p) ==
  /\ mc.pc[p] = "body"
  /\ LET call == mc.call[p]
         f == Finish([c |-> l1, stats |-> mc.stats], call, mc.loc[p])
         hits == call.kind = "get" /\ f.ret.found
         touched == IF call.kind = "set" \/ hits THEN call.key ELSE NoKey
     IN /\ l1' = f.m.c
        /\ mc' = [mc EXCEPT
                    !.mu = IF call.kind = "stats" THEN [@ EXCEPT !.r = @ \ {p}]
                           ELSE [@ EXCEPT !.w = 0],
                    !.stats = f.m.stats,
                    !.pc[p] = "idle", !.call[p] = NoMethod, !.loc[p] = NoLocals,
                    !.ret[p] = f.ret,
                    !.access = Accessed(f.m.c, touched),
                    !.hit = IF hits THEN call.key
                            ELSE IF call.kind = "set" THEN NoKey
                            ELSE IF @ # NoKey /\ f.m.c.data[@] = NoEntry THEN NoKey
                            ELSE @]
  /\ UNCHANGED <<now, ckept>>

\* time passes, whatever the callers are doing
CacheTick ==
  /\ now < MaxTime
  /\ now' = now + 1
  /\ UNCHANGED <<l1, mc, ckept>>

CacheNext ==
  \/ \E p \in Callers : \E call \in Methods(mc.tick + 1) : Call(p, call)
  \/ \E p \in Callers : Unlock(p)
  \/ CacheTick

SpecCache == CacheInit /\ [][CacheNext]_vars


\* C21: whenever no caller is inside a method of the cache, and so after every
\* Set whatever sets, gets, deletes, clears and sweeps came before, the cache
\* holds at most c.maxEntries entries
C21_SizeAtMostMaxEntries ==
  mc.mu.w = 0 => CacheSize(l1) <= mc.maxEntries

\* a Set of a new key found the cache full, evicted, returned, and the cache is
\* full again
C21_FullAfterEviction ==
  /\ mc.mu.w = 0
  /\ mc.ev # NoEviction
  /\ mc.ev.full = mc.maxEntries
  /\ mc.stats.evictions > 0
  /\ CacheSize(l1) = mc.maxEntries
  /\ mc.maxEntries > 1


C23_ReturnsAsIfOneAtATime ==
  \A p \in Callers : mc.pc[p] = "idle" => mc.ret[p] = mc.want[p]

\* a Get that hit has returned to one caller and a Stats to the other, which
\* counted entries, gets, and an eviction or a miss
C23_ResultsDependOnOrder ==
  \E p, q \in Callers :
    /\ p # q
    /\ mc.pc[p] = "idle" /\ mc.pc[q] = "idle"
    /\ mc.ret[p].found
    /\ mc.ret[q].entries > 0
    /\ mc.ret[q].hits + mc.ret[q].misses > 0
    /\ mc.ret[q].evictions > 0 \/ mc.ret[q].misses > 0


\* ------------------------------------------------ a lookup after a create
\* whether a mutation was in progress, and how many had begun, when the lookup
\* that reader r is in (or begins in this step) began
BeganAt(r) ==
  IF rpc[r] = "idle" THEN [quiet |-> wpc = "idle", mut |-> nmut]
  ELSE [quiet |-> rh[r].quiet0, mut |-> rh[r].mut0]

\* this step is the return of a lookup of reader r
LookupReturns(r) ==
  /\ rpc'[r] = "idle"
  /\ rpc[r] # "idle" \/ nlook' # nlook

\* the record the last CreateRecord inserted (INSERT ... RETURNING id)
Created == store[nextId - 1]

\* C24: a lookup of (r.name, r.type) that began after CreateRecord(r) had
\* returned nil, no other mutation having begun since, returns a group that
\* contains r (r being of the least priority of its name and type, and no store
\* statement of the lookup having failed)
C24_CreatedRecordIsLookedUp ==
  [][ \A r \in Readers :
        ( /\ LookupReturns(r)
          /\ BeganAt(r).quiet /\ BeganAt(r).mut = nmut /\ wpc = "idle"
          /\ wlast.kind = "create" /\ wlast.key = rkey'[r]
          /\ rres'[r].kind \in {"ok", "empty"} /\ ~rres'[r].l3err
          /\ Created.priority = ScannedInt32(MinPriorityQuery(store, wlast.key)) )
        => \E j \in 1..Len(rres'[r].recs) : rres'[r].recs[j] = Created
    ]_vars


\* =============================================================== a record's name
nkept ==
  <<now, redisEnabled, store, nextId, l1, l2, rvars, wvars, updNext, deletedById,
    prevRead, srv, mc, we, sd, hd, md>>

NameInit ==
  /\ now = 0
  /\ redisEnabled = FALSE
  /\ store = [i \in Ids |-> NoRec]
  /\ nextId = 1
  /\ l1 = EmptyCache
  /\ l2 = [k \in Keys |-> NoEntry]
  /\ rpc = [r \in Readers |-> "idle"]
  /\ rkey = [r \in Readers |-> NoKey]
  /\ rmode = [r \in Readers |-> "cached"]
  /\ rrecs = [r \in Readers |-> <<>>]
  /\ rmin = [r \in Readers |-> 0]
  /\ rres = [r \in Readers |-> NoResult]
  /\ rh = [r \in Readers |-> NoHist]
  /\ wpc = "idle"
  /\ wkey = NoKey
  /\ wname = ""
  /\ widx = 0
  /\ wlast = NoLast
  /\ wstored = FALSE
  /\ updNext = NoKey
  /\ deletedById = {}
  /\ prevRead = NoPrev
  /\ nlook = 0
  /\ nmut = 0
  /\ srv = ServerIdle(TRUE, "round_robin")
  /\ mc = NewMemoryCache(MaxEntries)
  /\ \E s \in NameChars : nm = NameGiven(s)
  /\ we = NoEngine
  /\ sd = Serving
  /\ hd = NoHandlers
  /\ md = NoModels

\* DNSRecord.Normalize: r.Name = NormalizeDomainName(r.Name)
NormalizeRecord ==
  /\ nm.times < MaxNormalize
  /\ ~nm.asked
  /\ nm' = [nm EXCEPT !.name = NormalizeChars(@), !.times = @ + 1]
  /\ UNCHANGED nkept

\* NewLookupQuery(r.Name, r.RecordType) for a record that was normalized
LookupQueryOf ==
  /\ nm.times > 0
  /\ ~nm.asked
  /\ nm' = [nm EXCEPT !.asked = TRUE, !.query = NormalizeChars(nm.name)]
  /\ UNCHANGED nkept

NameNext == NormalizeRecord \/ LookupQueryOf

SpecNames == NameInit /\ [][NameNext]_vars

\* C25: normalizing a name that was normalized returns it unchanged: the name of
\* a query made for a normalized record, and the name of a record normalized
\* again, is the record's name
C25_NormalizeIsIdempotent ==
  nm.times > 0 =>
    /\ NormalizeChars(nm.name) = nm.name
    /\ nm.asked => nm.query = nm.name


\* ------------------------------------------------------------ wildcard patterns
\* a stored name is a pattern when one of its labels is "*"
\* (DNSRecord.detectAndSetWildcards)
IsWildcard(n) == \E i \in DOMAIN SplitDots(n) : SplitDots(n)[i] = "*"

\* template matching: position by position, a wildcard position accepts any
\* label of the query, an exact position the equal label only
MatchesLabels(pl, ql) ==
  /\ Len(pl) = Len(ql)
  /\ \A i \in DOMAIN pl : pl[i] = "*" \/ pl[i] = ql[i]

Matches(pattern, n) == MatchesLabels(SplitDots(pattern), SplitDots(n))

\* the stored patterns of the type that match the query's name
MatchingPatterns(st, q) ==
  {i \in DOMAIN st : /\ st[i] # NoRec
                     /\ st[i].type = q.type
                     /\ IsWildcard(st[i].name)
                     /\ Matches(st[i].name, q.name)}

\* C26: a question of a type that supports wildcards, for a name with no record
\* of its own that a stored pattern matches, handled with no failure of Redis or
\* the store, is answered with the record of a matching pattern and not with
\* NXDOMAIN
C26_WildcardAnswersWhenDirectIsEmpty ==
  (/\ Replied
   /\ ~srv.l2fault /\ ~srv.l3fault
   /\ Query.type \in {"A", "AAAA", "CNAME", "TXT"}
   /\ Rows(store, CacheKey(Query.name, Query.type)) = {}
   /\ MatchingPatterns(store, Query) # {}) =>
    /\ srv.msg.rcode = "NOERROR"
    /\ Len(srv.msg.answer) = 1
    /\ \E i \in MatchingPatterns(store, Query) : srv.msg.answer[1].data = store[i].target


\* ======================================================= wildcard precedence
MaxLabels == 3
MaxPatterns == 3
MaxEngineCalls == 2
Labels == {"a", "b"}
AllQueries == [1..MaxLabels -> Labels]
AllPatterns == [1..MaxLabels -> Labels \cup {"*"}]
RECURSIVE PatternSets(_)
PatternSets(n) ==
  IF n = 0 THEN {{}}
  ELSE {ps \cup {pt} : ps \in PatternSets(n - 1), pt \in AllPatterns}

\* exact_match_count: the 0 bits of the bitmask
ExactCount(pt) == Cardinality({i \in DOMAIN pt : pt[i] # "*"})

\* Tier 1: all positions exact
FullyExact(pt) == ExactCount(pt) = Len(pt)

\* Tier 3: at the leftmost position where one pattern is exact and the other a
\* wildcard, a is the exact one
Tier3Never(a, b) == FALSE
Tier3(a, b) ==
  \E i \in DOMAIN a :
    /\ a[i] # "*" /\ b[i] = "*"
    /\ \A j \in 1..(i - 1) : (a[j] = "*") = (b[j] = "*")

\* a wins over b by the three tiers
Beats(a, b) ==
  \/ FullyExact(a) /\ ~FullyExact(b)
  \/ FullyExact(a) = FullyExact(b) /\ ExactCount(a) > ExactCount(b)
  \/ FullyExact(a) = FullyExact(b) /\ ExactCount(a) = ExactCount(b) /\ Tier3(a, b)

Candidates == {pt \in we.patterns : MatchesLabels(pt, we.query)}

\* the candidates no other candidate wins over; the framework names no winner
\* among several of them
Unbeaten(ps) == {pt \in ps : \A o \in ps \ {pt} : ~Beats(o, pt)}

wkept ==
  <<now, redisEnabled, store, nextId, l1, l2, rvars, wvars, updNext, deletedById,
    prevRead, srv, mc, nm, sd, hd, md>>

EngineInit ==
  /\ now = 0
  /\ redisEnabled = FALSE
  /\ store = [i \in Ids |-> NoRec]
  /\ nextId = 1
  /\ l1 = EmptyCache
  /\ l2 = [k \in Keys |-> NoEntry]
  /\ rpc = [r \in Readers |-> "idle"]
  /\ rkey = [r \in Readers |-> NoKey]
  /\ rmode = [r \in Readers |-> "cached"]
  /\ rrecs = [r \in Readers |-> <<>>]
  /\ rmin = [r \in Readers |-> 0]
  /\ rres = [r \in Readers |-> NoResult]
  /\ rh = [r \in Readers |-> NoHist]
  /\ wpc = "idle"
  /\ wkey = NoKey
  /\ wname = ""
  /\ widx = 0
  /\ wlast = NoLast
  /\ wstored = FALSE
  /\ updNext = NoKey
  /\ deletedById = {}
  /\ prevRead = NoPrev
  /\ nlook = 0
  /\ nmut = 0
  /\ srv = ServerIdle(TRUE, "round_robin")
  /\ mc = NewMemoryCache(MaxEntries)
  /\ nm = NameGiven(<<>>)
  /\ \E q \in AllQueries, ps \in PatternSets(MaxPatterns) :
       we = [query |-> q, patterns |-> ps, winners |-> <<>>]
  /\ sd = Serving
  /\ hd = NoHandlers
  /\ md = NoModels

\* one call of the engine: the candidates are filtered and ranked, and a
\* candidate that none wins over is returned
MatchQuery ==
  /\ Len(we.winners) < MaxEngineCalls
  /\ \E w \in Unbeaten(Candidates) : we' = [we EXCEPT !.winners = Append(@, w)]
  /\ UNCHANGED wkept

EngineNext == MatchQuery

SpecEngine == EngineInit /\ [][EngineNext]_vars

\* the bitmask of a pattern as a number, position 1 the most significant bit
RECURSIVE MaskNumber(_)
MaskNumber(pt) ==
  IF Len(pt) = 0 THEN 0
  ELSE 2 * MaskNumber(SubSeq(pt, 1, Len(pt) - 1))
         + (IF pt[Len(pt)] = "*" THEN 1 ELSE 0)

MaxInflight == 1
MaxServed == 2

skept ==
  <<now, store, nextId, l1, l2, rvars, wvars, updNext, deletedById, prevRead, srv, mc,
    nm, we, hd, md>>

ShutdownInit ==
  /\ now = 0
  /\ redisEnabled \in BOOLEAN
  /\ store = [i \in Ids |-> NoRec]
  /\ nextId = 1
  /\ l1 = EmptyCache
  /\ l2 = [k \in Keys |-> NoEntry]
  /\ rpc = [r \in Readers |-> "idle"]
  /\ rkey = [r \in Readers |-> NoKey]
  /\ rmode = [r \in Readers |-> "cached"]
  /\ rrecs = [r \in Readers |-> <<>>]
  /\ rmin = [r \in Readers |-> 0]
  /\ rres = [r \in Readers |-> NoResult]
  /\ rh = [r \in Readers |-> NoHist]
  /\ wpc = "idle"
  /\ wkey = NoKey
  /\ wname = ""
  /\ widx = 0
  /\ wlast = NoLast
  /\ wstored = FALSE
  /\ updNext = NoKey
  /\ deletedById = {}
  /\ prevRead = NoPrev
  /\ nlook = 0
  /\ nmut = 0
  /\ srv = ServerIdle(TRUE, "round_robin")
  /\ mc = NewMemoryCache(MaxEntries)
  /\ nm = NameGiven(<<>>)
  /\ we = NoEngine
  /\ sd = Serving
  /\ hd = NoHandlers
  /\ md = NoModels

\* a dns.Server reads a request and starts its handler
Accept(n) ==
  /\ sd.started[n]
  /\ sd.served < MaxServed
  /\ sd.inflight[n] < MaxInflight
  /\ sd' = [sd EXCEPT !.inflight[n] = @ + 1, !.served = @ + 1]
  /\ UNCHANGED <<redisEnabled, skept>>

\* handleDNSRequest returns
Handled(n) ==
  /\ sd.inflight[n] > 0
  /\ sd' = [sd EXCEPT !.inflight[n] = @ - 1]
  /\ UNCHANGED <<redisEnabled, skept>>

\* main: <-sigChan, then cancel()
Signal ==
  /\ sd.pc.main = "wait"
  /\ sd' = [sd EXCEPT !.pc.main = "udp", !.ctxDone = TRUE]
  /\ UNCHANGED <<redisEnabled, skept>>

\* Server.Start: <-ctx.Done(), then return s.Stop()
StartSeesDone ==
  /\ sd.pc.start = "wait"
  /\ sd.ctxDone
  /\ sd' = [sd EXCEPT !.pc.start = "udp"]
  /\ UNCHANGED <<redisEnabled, skept>>

\* where Server.Stop goes after the Shutdown of n, and its caller after Stop
AfterShutdown(p, n) ==
  IF n = "udp" THEN "tcp" ELSE IF p = "main" THEN "storage" ELSE "done"

\* Server.Stop: s.udpServer.Shutdown(), s.tcpServer.Shutdown().  dns.Server.Shutdown
\* of a server that was shut down returns an error at once; otherwise the server
\* stops reading requests and Shutdown waits for its handlers
ShutdownCall(p, n) ==
  /\ sd.pc[p] = n
  /\ IF sd.started[n]
     THEN sd' = [sd EXCEPT !.started[n] = FALSE, !.pc[p] = IF n = "udp" THEN "udpwait"
                                                                        ELSE "tcpwait"]
     ELSE sd' = [sd EXCEPT !.pc[p] = AfterShutdown(p, n)]
  /\ UNCHANGED <<redisEnabled, skept>>

ShutdownReturns(p, n) ==
  /\ sd.pc[p] = (IF n = "udp" THEN "udpwait" ELSE "tcpwait")
  /\ sd.inflight[n] = 0
  /\ sd' = [sd EXCEPT !.pc[p] = AfterShutdown(p, n)]
  /\ UNCHANGED <<redisEnabled, skept>>

\* main: finalStorage.Close().  RedisCacheStorage.Close closes the storage
\* (PostgresStorage.Close: the pool); CachedStorage.Close the storage, then the cache
CloseStorage ==
  /\ sd.pc.main = "storage"
  /\ sd' = [sd EXCEPT !.pc.main = "redis",
                      !.closed = @ \o (IF redisEnabled THEN <<"pool">>
                                       ELSE <<"pool", "cache">>)]
  /\ UNCHANGED <<redisEnabled, skept>>

\* main: if cfg.Redis.Enabled { redis.Close(...) }
CloseRedis ==
  /\ sd.pc.main = "redis"
  /\ sd' = [sd EXCEPT !.pc.main = "pool",
                      !.closed = IF redisEnabled THEN Append(@, "redis") ELSE @]
  /\ UNCHANGED <<redisEnabled, skept>>

\* main: pool.Close()
ClosePool ==
  /\ sd.pc.main = "pool"
  /\ sd' = [sd EXCEPT !.pc.main = "done", !.closed = Append(@, "pool")]
  /\ UNCHANGED <<redisEnabled, skept>>

ShutdownNext ==
  \/ \E n \in Nets : Accept(n)
  \/ \E n \in Nets : Handled(n)
  \/ Signal
  \/ StartSeesDone
  \/ \E p \in {"main", "start"}, n \in Nets : ShutdownCall(p, n)
  \/ \E p \in {"main", "start"}, n \in Nets : ShutdownReturns(p, n)
  \/ CloseStorage
  \/ CloseRedis
  \/ ClosePool

SpecShutdown == ShutdownInit /\ [][ShutdownNext]_vars

\* C28: a resource is closed only after both servers have stopped accepting
\* requests and no handler is running, and after everything that depends on it:
\* the pool and Redis only when nothing is served any more
C28_DrainedBeforePoolsClose ==
  sd.closed # <<>> =>
    /\ \A n \in Nets : ~sd.started[n]
    /\ \A n \in Nets : sd.inflight[n] = 0

\* ------------------------------------------------- the order of invalidation
\* C29: when a key is invalidated under the Redis facade, its L2 entry is
\* deleted before its L1 entry: the step of invalidateRecord /
\* invalidateNameType that deletes the key from L1 is taken only when L2 no
\* longer holds the key, so that no lookup can refill L1 from a stale L2 entry.
C29_L2DeletedBeforeL1 ==
  [][(redisEnabled /\ wpc = "invL1" /\ wpc' # "invL1") => ~L2Holds(wkey)]_vars

\* ------------------------------------------------------ the write into L2
\* C30: a cache write is all-or-nothing. Whenever no lookup stands between
\* its SET and its EXPIRE of a key, L2 holds for that key either no entry or an
\* entry that carries its time-to-live, whichever command failed on the way:
\* never an entry without expiry.
C30_NoL2EntryWithoutExpiry ==
  \A k \in Keys :
    (\A r \in Readers : ~(rpc[r] = "l2expire" /\ rkey[r] = k)) =>
      (l2[k] = NoEntry \/ l2[k].expireAt # NoExpiry)

\* ------------------------------------------------------ the background sweep
\* C31: the sweep never keeps c.mu held across the removal of several expired
\* entries: between one taking and the following release of the mutex by
\* cleanupExpired, at most one key leaves the cache, so that a concurrent Get
\* waits for the removal of one key at most.
C31_SweepRemovesOneKeyPerLock ==
  [][\A p \in Callers :
       (mc.pc[p] = "body" /\ mc.call[p].kind = "sweep" /\ mc'.pc[p] = "idle") =>
          Cardinality(mc.loc[p].keys) <= 1]_vars

\* ------------------------------------------------- rotation across buckets
\* C32: under round_robin the caching facades choose index
\* (H(name, type) + floor(now / bucket)) mod n of a group of n records, so of
\* two selections for the same query over the same group, the second made one
\* time bucket after the first, the second picks the record that follows the
\* first one's in the group (index + 1 mod n).
C32_NextBucketNextRecord ==
  (/\ TwoSelections
   /\ srv.cacheEnabled
   /\ srv.tieBreaker = "round_robin"
   /\ Bucket(srv.last.t) = Bucket(srv.prev.t) + 1) =>
    LET group == srv.last.group
        n == Len(group)
    IN \E i, j \in 1..n :
         /\ group[i] = srv.prev.rec
         /\ group[j] = srv.last.rec
         /\ j - 1 = i % n

\* ================================================ handlers and their counters
\* dns.Server runs handleDNSRequest on a goroutine per request; s.stats is a
\* plain struct of int64 fields that every handler increments with `++`, which
\* is a load of the field, an addition and a store.

\* what processQuestion comes to for one question: an answer appended, no record
\* (msg.Rcode = NameError, nil returned), or an error returned
Outcomes == {"answer", "none", "error"}
RECURSIVE QuestionLists(_)
QuestionLists(n) ==
  IF n = 0 THEN {<<>>}
  ELSE QuestionLists(n - 1)
         \cup {Append(q, o) : q \in {x \in QuestionLists(n - 1) : Len(x) = n - 1},
                              o \in Outcomes}

\* `s.stats.<ctr>++` begins; the handler goes on at `next` once it is stored
Increment(hs, ctr, next) == [hs EXCEPT !.pc = "load", !.ctr = ctr, !.next = next]

\* the counter the switch on msg.Rcode increments
RcodeCounter(msg) ==
  CASE msg.rcode = "NOERROR" ->
         IF msg.answer > 0 THEN "QueriesAnswered" ELSE "QueriesNXDomain"
    [] msg.rcode = "NXDOMAIN" -> "QueriesNXDomain"
    [] OTHER -> "QueriesError"

hkept ==
  <<now, redisEnabled, store, nextId, l1, l2, rvars, wvars, updNext, deletedById,
    prevRead, srv, mc, nm, we, sd, md>>

HandleInit ==
  /\ now = 0
  /\ redisEnabled = FALSE
  /\ store = [i \in Ids |-> NoRec]
  /\ nextId = 1
  /\ l1 = EmptyCache
  /\ l2 = [k \in Keys |-> NoEntry]
  /\ rpc = [r \in Readers |-> "idle"]
  /\ rkey = [r \in Readers |-> NoKey]
  /\ rmode = [r \in Readers |-> "cached"]
  /\ rrecs = [r \in Readers |-> <<>>]
  /\ rmin = [r \in Readers |-> 0]
  /\ rres = [r \in Readers |-> NoResult]
  /\ rh = [r \in Readers |-> NoHist]
  /\ wpc = "idle"
  /\ wkey = NoKey
  /\ wname = ""
  /\ widx = 0
  /\ wlast = NoLast
  /\ wstored = FALSE
  /\ updNext = NoKey
  /\ deletedById = {}
  /\ prevRead = NoPrev
  /\ nlook = 0
  /\ nmut = 0
  /\ srv = ServerIdle(TRUE, "round_robin")
  /\ mc = NewMemoryCache(MaxEntries)
  /\ nm = NameGiven(<<>>)
  /\ we = NoEngine
  /\ sd = Serving
  /\ hd = NoHandlers
  /\ md = NoModels

\* handleDNSRequest is entered with a request of questions `qs`:
\* s.stats.QueriesReceived++ begins; msg.SetReply(r)
ReceiveRequest(p, qs, wok) ==
  /\ hd.h[p].pc = "idle"
  /\ hd.recv < MaxHandled
  /\ hd' = [hd EXCEPT
              !.h[p] = Increment([HandlerIdle EXCEPT !.qs = qs, !.writeOk = wok],
                                 "QueriesReceived", "loop"),
              !.recv = @ + 1,
              !.overlapped = @ \/ \E q \in Handlers \ {p} : hd.h[q].pc # "idle"]
  /\ UNCHANGED hkept

\* `++`, first half: the field is loaded
LoadCounter(p) ==
  /\ hd.h[p].pc = "load"
  /\ hd' = [hd EXCEPT !.h[p].reg = hd.stats[hd.h[p].ctr], !.h[p].pc = "store"]
  /\ UNCHANGED hkept

\* `++`, second half: the value loaded, plus one, is stored
StoreCounter(p) ==
  /\ hd.h[p].pc = "store"
  /\ hd' = [hd EXCEPT !.stats[hd.h[p].ctr] = hd.h[p].reg + 1,
                      !.h[p].pc = hd.h[p].next,
                      !.h[p].ctr = "", !.h[p].reg = 0, !.h[p].next = ""]
  /\ UNCHANGED hkept

\* `for _, question := range r.Question`: processQuestion begins with
\* s.updateTypeStats(question.Qtype)
NextQuestion(p) ==
  /\ hd.h[p].pc = "loop"
  /\ hd.h[p].qs # <<>>
  /\ hd' = [hd EXCEPT !.h[p] = Increment(@, "TypeA", "resolve")]
  /\ UNCHANGED hkept

\* the rest of processQuestion and the `if err != nil` of the loop
QuestionOutcome(p) ==
  /\ hd.h[p].pc = "resolve"
  /\ LET o == Head(hd.h[p].qs)
         rest == [hd.h[p] EXCEPT !.qs = Tail(@)]
     IN hd' = [hd EXCEPT !.h[p] =
                 CASE o = "answer" ->
                        [rest EXCEPT !.msg.answer = @ + 1, !.pc = "loop"]
                   [] o = "none" ->
                        [rest EXCEPT !.msg.rcode = "NXDOMAIN", !.pc = "loop"]
                   [] OTHER ->
                        Increment([rest EXCEPT !.msg.rcode = "SERVFAIL", !.failed = TRUE],
                                  "QueriesError", "loop")]
  /\ UNCHANGED hkept

\* after the loop: `switch msg.Rcode`
UpdateRcodeStats(p) ==
  /\ hd.h[p].pc = "loop"
  /\ hd.h[p].qs = <<>>
  /\ hd' = [hd EXCEPT !.h[p] = Increment(@, RcodeCounter(hd.h[p].msg), "write")]
  /\ UNCHANGED hkept

\* w.WriteMsg(&msg), and s.stats.QueriesError++ when it fails
WriteMsg(p) ==
  /\ hd.h[p].pc = "write"
  /\ hd' = [hd EXCEPT !.h[p] = IF hd.h[p].writeOk
                               THEN [@ EXCEPT !.pc = "return", !.sent = TRUE]
                               ELSE Increment(@, "QueriesError", "return")]
  /\ UNCHANGED hkept

\* handleDNSRequest returns
HandlerReturns(p) ==
  /\ hd.h[p].pc = "return"
  /\ hd' = [hd EXCEPT !.h[p].pc = "idle", !.done = @ + 1]
  /\ UNCHANGED hkept

HandleNext ==
  \/ \E p \in Handlers, qs \in QuestionLists(MaxQuestions), wok \in BOOLEAN :
       ReceiveRequest(p, qs, wok)
  \/ \E p \in Handlers : LoadCounter(p)
  \/ \E p \in Handlers : StoreCounter(p)
  \/ \E p \in Handlers : NextQuestion(p)
  \/ \E p \in Handlers : QuestionOutcome(p)
  \/ \E p \in Handlers : UpdateRcodeStats(p)
  \/ \E p \in Handlers : WriteMsg(p)
  \/ \E p \in Handlers : HandlerReturns(p)

SpecStats == HandleInit /\ [][HandleNext]_vars

AllHandled == \A p \in Handlers : hd.h[p].pc = "idle"

\* C33: every request received is counted in exactly one of the answered,
\* not-found and error counters: once all requests received have been handled,
\* no two of them at the same time, QueriesReceived = QueriesAnswered +
\* QueriesNXDomain + QueriesError.
C33_ReceivedIsSumOfOutcomes ==
  (AllHandled /\ ~hd.overlapped) =>
    hd.stats["QueriesReceived"] =
      hd.stats["QueriesAnswered"] + hd.stats["QueriesNXDomain"] + hd.stats["QueriesError"]

\* C34: a request one of whose questions failed with an error is answered with
\* the server-failure status, whatever became of its other questions.
C34_AnyErrorIsServerFailure ==
  \A p \in Handlers :
    (hd.h[p].sent /\ hd.h[p].failed) => hd.h[p].msg.rcode = "SERVFAIL"

\* C35: no update of a counter is lost when requests are handled in parallel:
\* once the requests received have all been handled, QueriesReceived is their
\* number.
C35_ReceivedCountsEveryRequest ==
  AllHandled => hd.stats["QueriesReceived"] = hd.done

\* ------------------------------------------- an update that moves a record
\* a cached group holds a record whose row the store now keeps under the key
\* `k`: the row was moved to `k` by an update
HoldsMovedTo(recs, k) ==
  \E j \in 1..Len(recs) :
    store[recs[j].id] # NoRec /\ KeyOf(store[recs[j].id]) = k

C37_NeverServedPastRecordTTL ==
  \A r \in Readers :
    (rres[r].kind = "ok" /\ rres[r].src \in {"L1", "L2"} /\ rres[r].age # NoTTL) =>
      rres[r].age <= rres[r].prevttl

\* =================================================== values of package models
\* detectAndSetWildcards and RecordSet.HighestPriority, each applied to a
\* record or record set chosen at the start.
MaxPatternLabels == 4
MaxSetSize == 3

\* WildcardMask is a uint64
MaskBits == 64

\* labels: a wildcard, a plain label, and a label that holds a "*" among other
\* characters
PatternLabels == {"*", "api", "a*"}

\* strings.Contains(label, "*")
ContainsStar(label) == label \in {"*", "a*"}

RECURSIVE ListsUpTo(_, _)
ListsUpTo(S, n) ==
  IF n = 0 THEN {<<>>}
  ELSE LET shorter == ListsUpTo(S, n - 1)
       IN shorter \cup {Append(q, x) : q \in {y \in shorter : Len(y) = n - 1}, x \in S}

\* bit i of a mask
Bit(mask, i) == (mask \div (2 ^ i)) % 2 = 1

\* 1 << uint(i) on a uint64: a shift by the width or more gives 0
ShiftLeftOff(i) == IF i + 1 >= MaskBits THEN 0 ELSE 2 ^ (i + 1)
ShiftLeft(i) == IF i >= MaskBits THEN 0 ELSE 2 ^ i

\* mask |= b, for b zero or a single bit
BitOr(mask, b) ==
  IF b = 0 THEN mask
  ELSE IF (mask \div b) % 2 = 1 THEN mask
  ELSE mask + b

\* the loop of detectAndSetWildcards from label i (0-based) on; a label that
\* holds "*" among other characters ends it with an error
RECURSIVE DetectFrom(_, _, _, _)
DetectFrom(labels, i, hasWildcard, wildcardMask) ==
  IF i >= Len(labels)
  THEN [err |-> FALSE, hasWildcard |-> hasWildcard, wildcardMask |-> wildcardMask]
  ELSE IF labels[i + 1] = "*"
  THEN DetectFrom(labels, i + 1, TRUE, BitOr(wildcardMask, ShiftLeft(i)))
  ELSE IF ContainsStar(labels[i + 1])
  THEN [err |-> TRUE, hasWildcard |-> hasWildcard, wildcardMask |-> wildcardMask]
  ELSE DetectFrom(labels, i + 1, hasWildcard, wildcardMask)

\* HighestPriority: `record` replaces `highest` when its priority is lower (MX)
\* or higher (every other type)
Replaces(type, record, highest) ==
  IF type = "MX" THEN record < highest ELSE record > highest

\* the loop over rs.Records[1:], on the records' priorities; the index returned
RECURSIVE HighestScan(_, _, _, _)
HighestScan(type, ps, j, highest) ==
  IF j > Len(ps) THEN highest
  ELSE HighestScan(type, ps, j + 1,
                   IF Replaces(type, ps[j], ps[highest]) THEN j ELSE highest)

mkept ==
  <<now, redisEnabled, store, nextId, l1, l2, rvars, wvars, updNext, deletedById,
    prevRead, srv, mc, nm, we, sd, hd>>

ModelsInit ==
  /\ now = 0
  /\ redisEnabled = FALSE
  /\ store = [i \in Ids |-> NoRec]
  /\ nextId = 1
  /\ l1 = EmptyCache
  /\ l2 = [k \in Keys |-> NoEntry]
  /\ rpc = [r \in Readers |-> "idle"]
  /\ rkey = [r \in Readers |-> NoKey]
  /\ rmode = [r \in Readers |-> "cached"]
  /\ rrecs = [r \in Readers |-> <<>>]
  /\ rmin = [r \in Readers |-> 0]
  /\ rres = [r \in Readers |-> NoResult]
  /\ rh = [r \in Readers |-> NoHist]
  /\ wpc = "idle"
  /\ wkey = NoKey
  /\ wname = ""
  /\ widx = 0
  /\ wlast = NoLast
  /\ wstored = FALSE
  /\ updNext = NoKey
  /\ deletedById = {}
  /\ prevRead = NoPrev
  /\ nlook = 0
  /\ nmut = 0
  /\ srv = ServerIdle(TRUE, "round_robin")
  /\ mc = NewMemoryCache(MaxEntries)
  /\ nm = NameGiven(<<>>)
  /\ we = NoEngine
  /\ sd = Serving
  /\ hd = NoHandlers
  /\ \E labels \in ListsUpTo(PatternLabels, MaxPatternLabels),
        type \in {"A", "MX"},
        ps \in ListsUpTo(Priorities, MaxSetSize) :
       md = ModelsGiven(labels, [type |-> type, records |-> ps])

\* r.detectAndSetWildcards(): on an error neither field is assigned
DetectAndSetWildcards ==
  /\ ~md.detected
  /\ LET d == DetectFrom(md.labels, 0, FALSE, 0)
     IN md' = IF d.err THEN [md EXCEPT !.detected = TRUE, !.err = TRUE]
              ELSE [md EXCEPT !.detected = TRUE, !.isWildcard = d.hasWildcard,
                              !.wildcardMask = d.wildcardMask]
  /\ UNCHANGED mkept

\* rs.HighestPriority(): nil for an empty set (index 0)
HighestPriority ==
  /\ ~md.asked
  /\ md' = [md EXCEPT !.asked = TRUE,
                      !.highest = IF Len(md.rs.records) = 0 THEN 0
                                  ELSE HighestScan(md.rs.type, md.rs.records, 2, 1)]
  /\ UNCHANGED mkept

ModelsNext ==
  \/ DetectAndSetWildcards
  \/ HighestPriority

SpecModels == ModelsInit /\ [][ModelsNext]_vars

\* C38: for a pattern of L subdomain labels, L no more than the width of the
\* mask, that detectAndSetWildcards accepted, bit i of WildcardMask is set if
\* and only if label i, the leftmost being label 0, is exactly "*"; no bit from
\* L upwards is set.
C38_MaskBitIffLabelIsWildcard ==
  (md.detected /\ ~md.err /\ Len(md.labels) <= MaskBits) =>
    /\ \A i \in 0..(Len(md.labels) - 1) :
         Bit(md.wildcardMask, i) <=> (md.labels[i + 1] = "*")
    /\ \A i \in Len(md.labels)..MaxPatternLabels : ~Bit(md.wildcardMask, i)

\* C38 witness: api.*.api under the apex: the mask is 2, bit 1 alone
C38_MiddleLabelWildcard ==
  /\ md.detected /\ ~md.err
  /\ md.labels = <<"api", "*", "api">>
  /\ md.isWildcard
  /\ md.wildcardMask = 2

\* C39: priority is compared the same way for every record type: the record
\* HighestPriority returns for a set that is not empty carries the smallest
\* priority number of the set.
C39_MostPreferredIsLowestNumber ==
  (md.asked /\ md.rs.records # <<>>) =>
    \A j \in 1..Len(md.rs.records) :
      md.rs.records[md.highest] <= md.rs.records[j]

\* ------------------------------------------------ the map and the access order
\* C40: after every operation of the cache (get, set with or without eviction,
\* delete, clear, sweep), that is whenever no caller is inside a method that
\* writes, accessOrder holds each key of the entry map exactly once and no
\* other key.
C40_OrderListsEachKeyOnce ==
  (mc.mu.w = 0) =>
    /\ Len(l1.order) = CacheSize(l1)
    /\ {l1.order[i] : i \in 1..Len(l1.order)} = Present(l1)

\* C40 witness: a cache of two entries after an eviction and a hit, nobody
\* inside a method
C40_AfterEvictionAndHit ==
  /\ mc.mu.w = 0 /\ mc.mu.r = {}
  /\ mc.stats.evictions > 0
  /\ mc.stats.hits > 0
  /\ CacheSize(l1) = 2
  /\ Len(l1.order) = 2

====
